---- MODULE Spec2Model ----
(***************************************************************************)
(* A model of xplain: the plan Analyzer (internal/analyzer), the Diff      *)
(* Engine (internal/diff), the Insight Engine (internal/insight) and the   *)
(* process-wide Configuration (internal/config).                           *)
(*                                                                         *)
(* Numbers.  The program computes in float64.  The model computes in       *)
(* integers (milliseconds, rows, blocks) and keeps every quotient as an    *)
(* exact fraction [num, den] with den >= 0; den = 0 with num > 0 is +Inf.  *)
(* Rounding error of float64 is not modelled.  The program's epsilon       *)
(* (1e-9) is smaller than one unit of the integer grid, so "x <= epsilon"  *)
(* is "x <= 0" on every value the model can hold.                          *)
(***************************************************************************)
EXTENDS Integers, Sequences, FiniteSets, TLC

VARIABLES
    explain,      \* the *model.Explain handed to Analyze (Nil when absent)
    analysis,     \* what Analyze returned: the *PlanAnalysis, or Nil
    analyzeErr,   \* TRUE when Analyze returned an error
    pc,           \* position of the calling goroutine in the call it runs
    base,         \* Compare's base *PlanAnalysis (Nil when absent)
    target,       \* Compare's target *PlanAnalysis (Nil when absent)
    opts,         \* the Options handed to Compare
    report,       \* the *Report Compare builds and returns (Nil when none)
    compareErr,   \* TRUE when Compare returned an error
    active,       \* config.active, the process-wide configuration
    installed,    \* history: the Config values handed to Use so far
    lastWrite,    \* history: the last Use or Apply call and what it met
    snaps,        \* history: the values Active() returned to the running call
    writes,       \* number of Use and Apply calls made so far
    second,       \* what a second Analyze call on the same Explain returned
    jsonOut,      \* what Report.JSON returned: [err, doc], or Nil before the call
    aggregates,   \* what aggregate returned for a tree and for its reorderings
    messages,     \* what BuildMessages returned, or Nil before the call
    numeric       \* two numbers and what the ratio functions returned for them

vars == <<explain, analysis, analyzeErr, pc, base, target, opts, report, compareErr,
          active, installed, lastWrite, snaps, writes, second, jsonOut, aggregates,
          messages, numeric>>

resultVars == <<second, jsonOut, aggregates, messages, numeric>>

analyzeVars == <<explain, analysis, analyzeErr>>

compareVars == <<base, target, opts, report, compareErr>>

configVars == <<active, installed, lastWrite, writes>>

\* a nil pointer
Nil == [nil |-> TRUE]

----------------------------------------------------------------------------
(* Bounds *)

\* largest number of nodes in a plan tree handed to Analyze
MaxNodes == 3

\* largest number of nodes in each of the two plan trees handed to Compare
MaxDiffNodes == 2

\* largest number of Use and Apply calls in a run
MaxWrites == 2

\* largest number of nodes in a tree whose siblings are reordered
MaxAggNodes == 3

\* the numbers handed to the ratio functions are multiples of 5 up to
\* 5 * MaxValue in size
MaxValue == 4

\* largest number of joins in a plan handed to BuildMessages
MaxJoins == 3

----------------------------------------------------------------------------
(* float64 quotients as exact fractions *)

Abs(x) == IF x < 0 THEN -x ELSE x

\* the zero value of a float64 field
RatZero == [num |-> 0, den |-> 1]

\* an integer as a fraction
RatOf(n) == [num |-> n, den |-> 1]

\* math.Inf(1)
RatInf == [num |-> 1, den |-> 0]

\* a / b for b > 0
RatDiv(a, b) == [num |-> a, den |-> b]

\* math.IsInf(f, 1) || math.IsInf(f, -1)
RatIsInf(f) == f.den = 0

\* f >= g, f <= g, f = g as float64 comparisons (dens are >= 0; +Inf >= everything)
RatGE(f, g) ==
    IF f.den = 0 THEN TRUE
    ELSE IF g.den = 0 THEN FALSE
    ELSE f.num * g.den >= g.num * f.den

RatLE(f, g) == RatGE(g, f)

RatEQ(f, g) == RatGE(f, g) /\ RatGE(g, f)

RatGT(f, g) == ~RatLE(f, g)

RatLT(f, g) == ~RatGE(f, g)

----------------------------------------------------------------------------
(* Plan Model: model.PlanNode, model.Buffers, model.Explain *)

\* model.Buffers with every counter zero
NoBuffers ==
    [SharedHit |-> 0, SharedRead |-> 0, SharedDirtied |-> 0, SharedWritten |-> 0,
     LocalHit |-> 0, LocalRead |-> 0, LocalDirtied |-> 0, LocalWritten |-> 0,
     TempRead |-> 0, TempWritten |-> 0]

\* a model.PlanNode without children
PlanNode(nodeType, rel, planRows, time, rows, loops, buffers) ==
    [NodeType |-> nodeType, RelationName |-> rel, IndexName |-> "", JoinType |-> "",
     PlanRows |-> planRows, ActualTotalTime |-> time, ActualRows |-> rows,
     ActualLoops |-> loops, Buffers |-> buffers, Children |-> <<>>]

\* the shapes of plan trees of exactly n nodes; forests are ordered child lists
RECURSIVE ShapesOfSize(_), ForestsOfSize(_)
ShapesOfSize(n) ==
    IF n < 1 THEN {}
    ELSE { [Children |-> cs] : cs \in ForestsOfSize(n - 1) }

ForestsOfSize(m) ==
    IF m = 0 THEN { <<>> }
    ELSE UNION { { <<t>> \o rest : t \in ShapesOfSize(k), rest \in ForestsOfSize(m - k) } :
                 k \in 1..m }

\* the shapes of plan trees of 1..n nodes
Shapes(n) == UNION { ShapesOfSize(k) : k \in 1..n }

\* the number of nodes of a tree
RECURSIVE Size(_), SizeAll(_)
Size(tree) == 1 + SizeAll(tree.Children)

SizeAll(children) ==
    IF children = <<>> THEN 0 ELSE Size(Head(children)) + SizeAll(Tail(children))

\* the plan tree of a shape whose nodes, in pre-order from position at, are nodes[at], ...
RECURSIVE PlanTree(_, _, _), PlanForest(_, _, _)
PlanTree(shape, nodes, at) ==
    [nodes[at] EXCEPT !.Children = PlanForest(shape.Children, nodes, at + 1)]

PlanForest(shapes, nodes, at) ==
    IF shapes = <<>> THEN <<>>
    ELSE <<PlanTree(Head(shapes), nodes, at)>>
         \o PlanForest(Tail(shapes), nodes, at + Size(Head(shapes)))

\* a model.Explain
Explain(plan, planning, execution) ==
    [Plan |-> plan, PlanningTime |-> planning, ExecutionTime |-> execution]

----------------------------------------------------------------------------
(* sort.Slice *)

\* sort.Slice(s, less) with less(i, j) = keys[i] > keys[j]: the result on slices
\* of at most 12 elements, where the library sorts by insertion and so keeps the
\* input order of elements with equal keys
SortSliceDesc(s, keys) ==
    LET n == Len(s)
        before(j, i) == RatGT(keys[j], keys[i]) \/ (~RatGT(keys[i], keys[j]) /\ j < i)
        rank(i) == Cardinality({ j \in 1..n : j # i /\ before(j, i) }) + 1
    IN  [p \in 1..n |-> s[CHOOSE i \in 1..n : rank(i) = p]]

\* s[:limit]
Prefix(s, limit) == SubSeq(s, 1, limit)

\* the elements of s that satisfy keep, in order
RECURSIVE FilterSeq(_, _)
FilterSeq(s, keepSet) ==
    IF s = <<>> THEN <<>>
    ELSE (IF Head(s) \in keepSet THEN <<Head(s)>> ELSE <<>>) \o FilterSeq(Tail(s), keepSet)

----------------------------------------------------------------------------
(* Analyzer *)

\* BufferTotals.Total
Total(b) ==
    b.SharedHit + b.SharedRead + b.SharedDirtied + b.SharedWritten +
    b.LocalHit + b.LocalRead + b.LocalDirtied + b.LocalWritten + b.TempRead + b.TempWritten

\* a factor capped at 100 where the estimate is zero, as percent change is
computeEstimateFactorCapped(estimated, actual) ==
    IF estimated <= 0
    THEN IF actual <= 0 THEN RatOf(1) ELSE RatOf(100)
    ELSE RatDiv(actual, estimated)

\* computeEstimateFactor
computeEstimateFactor(estimated, actual) ==
    IF estimated <= 0
    THEN IF actual <= 0 THEN RatOf(1) ELSE RatInf
    ELSE RatDiv(actual, estimated)

\* a row warning for every factor of 1 and above, an exact estimate included
deriveWarningsFromOne(stats) ==
    (IF RatGE(stats.PercentExclusive, RatDiv(20, 100)) THEN <<"self time">> ELSE <<>>)
    \o (IF RatGE(stats.RowEstimateFactor, RatOf(1)) THEN <<"rows higher than estimate">>
        ELSE IF RatLE(stats.RowEstimateFactor, RatDiv(1, 2)) THEN <<"rows lower than estimate">>
        ELSE <<>>)
    \o (IF Total(stats.Buffers) > 0 /\ RatGE(stats.PercentExclusive, RatDiv(5, 100))
        THEN <<"heavy buffer usage">> ELSE <<>>)

\* deriveWarnings: the warnings as tags, in the order they are appended
deriveWarnings(stats) ==
    (IF RatGE(stats.PercentExclusive, RatDiv(20, 100)) THEN <<"self time">> ELSE <<>>)
    \o (IF RatGE(stats.RowEstimateFactor, RatOf(2)) THEN <<"rows higher than estimate">>
        ELSE IF RatLE(stats.RowEstimateFactor, RatDiv(1, 2)) THEN <<"rows lower than estimate">>
        ELSE <<>>)
    \o (IF Total(stats.Buffers) > 0 /\ RatGE(stats.PercentExclusive, RatDiv(5, 100))
        THEN <<"heavy buffer usage">> ELSE <<>>)

\* the loop count taken as reported, zero included
effectiveLoopsRaw(node) == node.ActualLoops

\* buildStats: loops <= 0 is normalised to 1
effectiveLoops(node) == IF node.ActualLoops <= 0 THEN 1 ELSE node.ActualLoops

\* childTime assigned instead of accumulated: the last child's time alone
childTimeLast(children) ==
    IF children = <<>> THEN 0 ELSE children[Len(children)].InclusiveTimeMs

\* buildStats: childTime, the sum of the children's InclusiveTimeMs
RECURSIVE childTimeOf(_)
childTimeOf(children) ==
    IF children = <<>> THEN 0
    ELSE Head(children).InclusiveTimeMs + childTimeOf(Tail(children))

\* the subtraction without the clamp
exclusiveTimeUnclamped(inclusive, childTime) == inclusive - childTime

\* buildStats: ExclusiveTimeMs = inclusive - childTime, negative values set to 0
exclusiveTime(inclusive, childTime) ==
    IF inclusive - childTime < 0 THEN 0 ELSE inclusive - childTime

\* buildStats: the NodeStats tree of a plan node; the percent fields keep their
\* zero value here, and deriveWarnings runs on the node in that state
RECURSIVE buildStats(_, _)
buildStats(node, depth) ==
    LET loops     == effectiveLoops(node)
        inclusive == node.ActualTotalTime * loops
        children  == [i \in 1..Len(node.Children) |-> buildStats(node.Children[i], depth + 1)]
        stats     == [Node              |-> node,
                      Depth             |-> depth,
                      InclusiveTimeMs   |-> inclusive,
                      ExclusiveTimeMs   |-> exclusiveTime(inclusive, childTimeOf(children)),
                      PercentExclusive  |-> RatZero,
                      PercentInclusive  |-> RatZero,
                      ActualTotalRows   |-> node.ActualRows * loops,
                      EstimatedRows     |-> node.PlanRows * loops,
                      RowEstimateFactor |-> computeEstimateFactor(node.PlanRows * loops,
                                                                  node.ActualRows * loops),
                      Buffers           |-> node.Buffers,
                      Warnings          |-> <<>>,
                      Children          |-> children]
    IN  [stats EXCEPT !.Warnings = deriveWarnings(stats)]

\* annotateRatios: the percent fields of every node, against the root's total
RECURSIVE annotateRatios(_, _)
annotateRatios(node, total) ==
    LET children == [i \in 1..Len(node.Children) |-> annotateRatios(node.Children[i], total)]
    IN  IF total > 0
        THEN [node EXCEPT !.PercentExclusive = RatDiv(node.ExclusiveTimeMs, total),
                          !.PercentInclusive = RatDiv(node.InclusiveTimeMs, total),
                          !.Children = children]
        ELSE [node EXCEPT !.Children = children]

\* flatten: the nodes of the tree in pre-order
RECURSIVE flatten(_), flattenAll(_)
flatten(root) == <<root>> \o flattenAll(root.Children)

flattenAll(children) ==
    IF children = <<>> THEN <<>>
    ELSE flatten(Head(children)) \o flattenAll(Tail(children))

\* selectHotNodes: the prefix of the (at most 5) candidates that reach the cutoff
RECURSIVE hotPrefix(_)
hotPrefix(candidates) ==
    IF candidates = <<>> \/ RatLT(Head(candidates).PercentExclusive, RatDiv(10, 100))
    THEN <<>>
    ELSE <<Head(candidates)>> \o hotPrefix(Tail(candidates))

\* the candidates that reach the cutoff, however many they are
selectHotNodesUncapped(nodes) ==
    IF Len(nodes) = 0 THEN <<>>
    ELSE LET positive   == { n \in { nodes[i] : i \in 1..Len(nodes) } :
                               RatGT(n.PercentExclusive, RatZero) }
             unsorted   == FilterSeq(nodes, positive)
             candidates == SortSliceDesc(unsorted,
                               [i \in 1..Len(unsorted) |-> unsorted[i].PercentExclusive])
             out        == hotPrefix(candidates)
         IN  IF Len(out) = 0 /\ Len(candidates) > 0 THEN candidates ELSE out

\* selectHotNodes
selectHotNodes(nodes) ==
    IF Len(nodes) = 0 THEN <<>>
    ELSE LET positive   == { n \in { nodes[i] : i \in 1..Len(nodes) } :
                               RatGT(n.PercentExclusive, RatZero) }
             unsorted   == FilterSeq(nodes, positive)
             candidates == SortSliceDesc(unsorted,
                               [i \in 1..Len(unsorted) |-> unsorted[i].PercentExclusive])
             limit      == IF Len(candidates) < 5 THEN Len(candidates) ELSE 5
             out        == hotPrefix(Prefix(candidates, limit))
         IN  IF Len(out) = 0 /\ Len(candidates) > 0 THEN Prefix(candidates, limit) ELSE out

\* selectDivergentNodes: |factor - 1| as a fraction (+Inf stays +Inf)
factorDistance(f) ==
    IF f.den = 0 THEN RatInf ELSE [num |-> Abs(f.num - f.den), den |-> f.den]

\* the eligible nodes ordered by the factor itself, not by its distance from 1
selectDivergentNodesByFactor(nodes) ==
    LET eligible == { n \in { nodes[i] : i \in 1..Len(nodes) } :
                        \/ RatIsInf(n.RowEstimateFactor)
                        \/ /\ \/ RatGE(n.RowEstimateFactor, RatOf(2))
                              \/ RatLE(n.RowEstimateFactor, RatDiv(1, 2))
                           /\ (n.EstimatedRows > 0 \/ n.ActualTotalRows > 0) }
        unsorted == FilterSeq(nodes, eligible)
        out   == SortSliceDesc(unsorted,
                     [i \in 1..Len(unsorted) |-> unsorted[i].RowEstimateFactor])
        limit == IF Len(out) < 5 THEN Len(out) ELSE 5
    IN  Prefix(out, limit)

\* selectDivergentNodes
selectDivergentNodes(nodes) ==
    LET eligible == { n \in { nodes[i] : i \in 1..Len(nodes) } :
                        \/ RatIsInf(n.RowEstimateFactor)
                        \/ /\ \/ RatGE(n.RowEstimateFactor, RatOf(2))
                              \/ RatLE(n.RowEstimateFactor, RatDiv(1, 2))
                           /\ (n.EstimatedRows > 0 \/ n.ActualTotalRows > 0) }
        unsorted == FilterSeq(nodes, eligible)
        out   == SortSliceDesc(unsorted,
                     [i \in 1..Len(unsorted) |-> factorDistance(unsorted[i].RowEstimateFactor)])
        limit == IF Len(out) < 5 THEN Len(out) ELSE 5
    IN  Prefix(out, limit)

\* a plan that reports no runtime statistics is refused as well
missingPlanOrStats(e) ==
    IF e = Nil THEN TRUE ELSE IF e.Plan = Nil THEN TRUE ELSE e.Plan.ActualLoops <= 0

\* Analyze: explain == nil || explain.Plan == nil
missingPlan(e) == IF e = Nil THEN TRUE ELSE e.Plan = Nil

\* Analyze: [analysis, err]; analysis is Nil exactly when err is TRUE
Analyze(e) ==
    IF missingPlan(e)
    THEN [analysis |-> Nil, err |-> TRUE]
    ELSE LET built     == buildStats(e.Plan, 0)
             totalTime == built.InclusiveTimeMs
             root      == annotateRatios(built, totalTime)
             allNodes  == flatten(root)
         IN  [analysis |-> [Root            |-> root,
                            PlanningTimeMs  |-> e.PlanningTime,
                            ExecutionTimeMs |-> e.ExecutionTime,
                            TotalTimeMs     |-> totalTime,
                            NodeCount       |-> Len(allNodes),
                            HotNodes        |-> selectHotNodes(allNodes),
                            DivergentNodes  |-> selectDivergentNodes(allNodes)],
              err |-> FALSE]

----------------------------------------------------------------------------
(* Configuration: internal/config *)

\* Default: the built-in configuration.  Percentages and ratios are fractions;
\* milliseconds, blocks, loops and counts are integers.
Default ==
    [Insights |->
        [HotspotCriticalPercent  |-> RatDiv(40, 100),
         HotspotWarningPercent   |-> RatDiv(20, 100),
         SeqScanBufferHint       |-> 5000,
         BufferWarningBlocks     |-> 5000,
         BufferCriticalBlocks    |-> 50000,
         NestedLoopWarnLoops     |-> 100,
         NestedLoopCriticalLoops |-> 10000,
         RowEstimateCriticalHigh |-> RatOf(5),
         RowEstimateCriticalLow  |-> RatDiv(2, 10),
         SpillNewBlocks          |-> 100,
         ParallelLimitKeepRatio  |-> RatDiv(10, 100)],
     Diff |->
        [MinSelfDeltaMs   |-> 2,
         MinPercentChange |-> 5,
         MaxItems         |-> 8,
         CriticalDeltaMs  |-> 10,
         WarningDeltaMs   |-> 5]]

\* a Use that copies the Insights section only
UseInsightsOnly(cur, cfg) == [cur EXCEPT !.Insights = cfg.Insights]

\* the value Use stores: the Config passed in replaces the old one whole,
\* under the write lock
Use(cur, cfg) == cfg

\* Active: the value read under the read lock
Active(cur) == cur

\* a JSON document: syntax is FALSE for text that is not JSON; insights and
\* diff map the keys present in the document to their values; mistyped holds
\* the <<section, key>> pairs whose value has the wrong JSON type
Document(insights, diff, mistyped) ==
    [syntax |-> TRUE, insights |-> insights, diff |-> diff, mistyped |-> mistyped]

NotJSON == [syntax |-> FALSE, insights |-> <<>>, diff |-> <<>>, mistyped |-> {}]

\* json.Unmarshal(data, &cfg): nothing is decoded from text that is not JSON;
\* otherwise every well-typed key present overwrites its field, the other
\* fields keep their value, and a mistyped key makes the call return an error
\* after the rest was decoded
Unmarshal(data, cfg) ==
    IF ~data.syntax THEN [err |-> TRUE, cfg |-> cfg]
    ELSE [err |-> data.mistyped # {},
          cfg |-> [Insights |-> [k \in DOMAIN cfg.Insights |->
                                    IF k \in DOMAIN data.insights
                                       /\ <<"insights", k>> \notin data.mistyped
                                    THEN data.insights[k] ELSE cfg.Insights[k]],
                   Diff     |-> [k \in DOMAIN cfg.Diff |->
                                    IF k \in DOMAIN data.diff
                                       /\ <<"diff", k>> \notin data.mistyped
                                    THEN data.diff[k] ELSE cfg.Diff[k]]]]

\* the configuration of README.md, with the max_items of the sample file
DocSample ==
    Document([HotspotCriticalPercent |-> RatDiv(50, 100), BufferWarningBlocks |-> 2000,
              NestedLoopWarnLoops |-> 200],
             [MinSelfDeltaMs |-> 1, MaxItems |-> 12], {})

\* a document that turns the diff thresholds off and lists one entry a section
DocLax ==
    Document(<<>>, [MinSelfDeltaMs |-> 0, MinPercentChange |-> 0, MaxItems |-> 1], {})

\* a document that sets a single insight threshold
DocSpill == Document([SpillNewBlocks |-> 50], <<>>, {})

\* a document with a well-typed key and a key of the wrong type
DocMistyped ==
    Document(<<>>, [MinSelfDeltaMs |-> 1, MaxItems |-> 0], {<<"diff", "MaxItems">>})

\* a document that sets max_items to 0
DocNoLimit == Document(<<>>, [MaxItems |-> 0], {})

\* os.ReadFile: the files on disk; a path outside the domain cannot be read
Files ==
    [sample |-> DocSample, lax |-> DocLax, spill |-> DocSpill, empty |-> Document(<<>>, <<>>, {}),
     mistyped |-> DocMistyped, garbage |-> NotJSON, nolimit |-> DocNoLimit]

\* the paths handed to Apply; "" resets, "missing" names no file
Paths == {"", "missing"} \cup DOMAIN Files

\* Apply decoding into the active value instead of a fresh Default()
ApplyInPlace(path, cur) ==
    IF path = "" THEN [err |-> FALSE, active |-> Use(cur, Default)]
    ELSE IF path \notin DOMAIN Files THEN [err |-> TRUE, active |-> cur]
    ELSE [err |-> Unmarshal(Files[path], cur).err, active |-> Unmarshal(Files[path], cur).cfg]

\* Apply storing the decoded value before looking at the decoder's error
ApplyEager(path, cur) ==
    IF path = "" THEN [err |-> FALSE, active |-> Use(cur, Default)]
    ELSE IF path \notin DOMAIN Files THEN [err |-> TRUE, active |-> cur]
    ELSE [err |-> Unmarshal(Files[path], Default).err,
          active |-> Use(cur, Unmarshal(Files[path], Default).cfg)]

\* the zero value of Config
ZeroConfig ==
    [Insights |->
        [HotspotCriticalPercent  |-> RatZero,
         HotspotWarningPercent   |-> RatZero,
         SeqScanBufferHint       |-> 0,
         BufferWarningBlocks     |-> 0,
         BufferCriticalBlocks    |-> 0,
         NestedLoopWarnLoops     |-> 0,
         NestedLoopCriticalLoops |-> 0,
         RowEstimateCriticalHigh |-> RatZero,
         RowEstimateCriticalLow  |-> RatZero,
         SpillNewBlocks          |-> 0,
         ParallelLimitKeepRatio  |-> RatZero],
     Diff |->
        [MinSelfDeltaMs   |-> 0,
         MinPercentChange |-> 0,
         MaxItems         |-> 0,
         CriticalDeltaMs  |-> 0,
         WarningDeltaMs   |-> 0]]

\* Apply decoding into a zero Config instead of Default()
ApplyOnZero(path, cur) ==
    IF path = "" THEN [err |-> FALSE, active |-> Use(cur, Default)]
    ELSE IF path \notin DOMAIN Files THEN [err |-> TRUE, active |-> cur]
    ELSE LET parsed == Unmarshal(Files[path], ZeroConfig)
         IN  IF parsed.err THEN [err |-> TRUE, active |-> cur]
             ELSE [err |-> FALSE, active |-> Use(cur, parsed.cfg)]

\* Apply: [err, active], the error returned and the active configuration left
Apply(path, cur) ==
    IF path = "" THEN [err |-> FALSE, active |-> Use(cur, Default)]
    ELSE IF path \notin DOMAIN Files THEN [err |-> TRUE, active |-> cur]
    ELSE LET parsed == Unmarshal(Files[path], Default)
         IN  IF parsed.err THEN [err |-> TRUE, active |-> cur]
             ELSE [err |-> FALSE, active |-> Use(cur, parsed.cfg)]

----------------------------------------------------------------------------
(* Diff Engine: internal/diff *)

\* the strings the model's plans use, in the byte order sort.Strings compares
\* them by; none is a prefix of another, so that comparing signatures part by
\* part orders them as comparing the joined strings does
StringOrder == <<"Hash Join", "Nested Loop", "Seq Scan", "Sort", "t", "u">>

stringLess(a, b) ==
    \E i, j \in 1..Len(StringOrder) : StringOrder[i] = a /\ StringOrder[j] = b /\ i < j

\* a < b for two signatures, as strings
RECURSIVE sigLess(_, _)
sigLess(a, b) ==
    IF b = <<>> THEN FALSE
    ELSE IF a = <<>> THEN TRUE
    ELSE IF Head(a) = Head(b) THEN sigLess(Tail(a), Tail(b))
    ELSE stringLess(Head(a), Head(b))

\* sort.Strings over the keys collected in a set
SortStrings(keys) ==
    [p \in 1..Cardinality(keys) |->
        CHOOSE x \in keys : Cardinality({ y \in keys : sigLess(y, x) }) = p - 1]

\* signature: the node type, then relation, index and join type when not
\* empty; the parts stand for the string joined by " · "
signature(node) ==
    <<node.Node.NodeType>>
    \o (IF node.Node.RelationName # "" THEN <<node.Node.RelationName>> ELSE <<>>)
    \o (IF node.Node.IndexName # "" THEN <<node.Node.IndexName>> ELSE <<>>)
    \o (IF node.Node.JoinType # "" THEN <<node.Node.JoinType>> ELSE <<>>)

\* the zero value of aggregated
zeroAggregated ==
    [SelfMs |-> 0, ActualRows |-> 0, EstimatedRows |-> 0, Buffers |-> 0, TempBlocks |-> 0]

\* result[sig]: the entry of a map, or the zero value for a missing key
lookup(agg, sig) == IF sig \in DOMAIN agg THEN agg[sig] ELSE zeroAggregated

\* an entry that takes the metrics of the node visited last
accumulateLast(entry, n) ==
    [SelfMs        |-> n.ExclusiveTimeMs,
     ActualRows    |-> n.ActualTotalRows,
     EstimatedRows |-> n.EstimatedRows,
     Buffers       |-> Total(n.Buffers),
     TempBlocks    |-> n.Buffers.TempRead + n.Buffers.TempWritten]

\* aggregate: walk adds the node's metrics to the entry of its signature
accumulate(entry, n) ==
    [SelfMs        |-> entry.SelfMs + n.ExclusiveTimeMs,
     ActualRows    |-> entry.ActualRows + n.ActualTotalRows,
     EstimatedRows |-> entry.EstimatedRows + n.EstimatedRows,
     Buffers       |-> entry.Buffers + Total(n.Buffers),
     TempBlocks    |-> entry.TempBlocks + n.Buffers.TempRead + n.Buffers.TempWritten]

\* aggregate: walk stores the entry back under the signature
RECURSIVE aggregateWalk(_, _)
aggregateWalk(nodes, result) ==
    IF nodes = <<>> THEN result
    ELSE LET n     == Head(nodes)
             sig   == signature(n)
             added == accumulate(lookup(result, sig), n)
         IN  aggregateWalk(Tail(nodes),
                 [k \in DOMAIN result \cup {sig} |-> IF k = sig THEN added ELSE result[k]])

\* aggregate: the walk visits a node, then its children in order
aggregate(root) == aggregateWalk(flatten(root), <<>>)

\* the keys of the base alone
unionKeysOfBase(baseAgg, targetAgg) == SortStrings(DOMAIN baseAgg)

\* unionKeys
unionKeys(baseAgg, targetAgg) == SortStrings(DOMAIN baseAgg \cup DOMAIN targetAgg)

\* ratio
ratio(actual, estimated) ==
    IF estimated <= 0
    THEN IF actual <= 0 THEN RatOf(1) ELSE RatInf
    ELSE RatDiv(actual, estimated)

\* a percent change measured against the target
percentChangeOfTarget(b, t) ==
    IF Abs(b) <= 0
    THEN IF Abs(t) <= 0 THEN RatOf(0)
         ELSE IF t > 0 THEN RatOf(100) ELSE RatOf(-100)
    ELSE IF t > 0 THEN [num |-> (t - b) * 100, den |-> t]
         ELSE IF t < 0 THEN [num |-> (b - t) * 100, den |-> -t]
         ELSE RatOf(-100)

\* percentChange: (target - base) / base * 100 as a fraction of positive denominator
percentChange(b, t) ==
    IF Abs(b) <= 0
    THEN IF Abs(t) <= 0 THEN RatOf(0)
         ELSE IF t > 0 THEN RatOf(100) ELSE RatOf(-100)
    ELSE IF b > 0 THEN [num |-> (t - b) * 100, den |-> b]
         ELSE [num |-> (b - t) * 100, den |-> -b]

\* buildEntry
buildEntry(sig, b, t) ==
    [Signature        |-> sig,
     BaseSelfMs       |-> b.SelfMs,
     TargetSelfMs     |-> t.SelfMs,
     DeltaSelfMs      |-> t.SelfMs - b.SelfMs,
     PercentChange    |-> percentChange(b.SelfMs, t.SelfMs),
     BaseRows         |-> b.ActualRows,
     TargetRows       |-> t.ActualRows,
     BaseRowFactor    |-> ratio(b.ActualRows, b.EstimatedRows),
     TargetRowFactor  |-> ratio(t.ActualRows, t.EstimatedRows),
     BaseBuffers      |-> b.Buffers,
     TargetBuffers    |-> t.Buffers,
     DeltaBuffers     |-> t.Buffers - b.Buffers,
     BaseTempBlocks   |-> b.TempBlocks,
     TargetTempBlocks |-> t.TempBlocks,
     DeltaTempBlocks  |-> t.TempBlocks - b.TempBlocks]

\* the regression test with strict comparisons
passesRegressionStrict(entry, o) ==
    /\ entry.DeltaSelfMs > o.MinSelfTimeDeltaMs
    /\ RatGT(entry.PercentChange, RatOf(o.MinPercentChange))

\* passesRegression
passesRegression(entry, o) ==
    /\ entry.DeltaSelfMs >= o.MinSelfTimeDeltaMs
    /\ RatGE(entry.PercentChange, RatOf(o.MinPercentChange))

\* passesImprovement
passesImprovement(entry, o) ==
    /\ entry.DeltaSelfMs <= -o.MinSelfTimeDeltaMs
    /\ RatLE(entry.PercentChange, RatOf(-o.MinPercentChange))

\* the improvement branch as an if of its own
improvesIndependently(entry, o) == passesImprovement(entry, o)

\* Compare: the else-if branch that appends to improvements
improves(entry, o) == ~passesRegression(entry, o) /\ passesImprovement(entry, o)

\* Options
Options(minDelta, minPercent, maxItems) ==
    [MinSelfTimeDeltaMs |-> minDelta, MinPercentChange |-> minPercent, MaxItems |-> maxItems]

\* a fallback that replaces an option only when it is exactly zero
applyDefaultsUnsetOnly(o, cfg) ==
    [MinSelfTimeDeltaMs |-> IF o.MinSelfTimeDeltaMs = 0 THEN cfg.MinSelfDeltaMs
                            ELSE o.MinSelfTimeDeltaMs,
     MinPercentChange   |-> IF o.MinPercentChange = 0 THEN cfg.MinPercentChange
                            ELSE o.MinPercentChange,
     MaxItems           |-> IF o.MaxItems = 0 THEN cfg.MaxItems ELSE o.MaxItems]

\* applyDefaults, on the Diff section of the configuration it read
applyDefaults(o, cfg) ==
    [MinSelfTimeDeltaMs |-> IF o.MinSelfTimeDeltaMs <= 0 THEN cfg.MinSelfDeltaMs
                            ELSE o.MinSelfTimeDeltaMs,
     MinPercentChange   |-> IF o.MinPercentChange <= 0 THEN cfg.MinPercentChange
                            ELSE o.MinPercentChange,
     MaxItems           |-> IF o.MaxItems <= 0 THEN cfg.MaxItems ELSE o.MaxItems]

\* Compare: the entries of the signatures, in the order of unionKeys
entriesOf(baseAgg, targetAgg) ==
    LET signatures == unionKeys(baseAgg, targetAgg)
    IN  [i \in 1..Len(signatures) |->
            buildEntry(signatures[i], lookup(baseAgg, signatures[i]),
                       lookup(targetAgg, signatures[i]))]

\* a cut that keeps the entries at the end of the list
truncateTail(list, maxItems) ==
    IF maxItems > 0 /\ Len(list) > maxItems
    THEN SubSeq(list, Len(list) - maxItems + 1, Len(list)) ELSE list

\* Compare: a list cut to MaxItems entries when MaxItems > 0
truncate(list, maxItems) ==
    IF maxItems > 0 /\ Len(list) > maxItems THEN Prefix(list, maxItems) ELSE list

\* a PlanAnalysis that refuses an analysis without timing as well
missingAnalysisOrTiming(a) ==
    IF a = Nil THEN TRUE ELSE IF a.Root = Nil THEN TRUE ELSE a.TotalTimeMs <= 0

\* Compare: base == nil || base.Root == nil (and the same for target)
missingAnalysis(a) == IF a = Nil THEN TRUE ELSE a.Root = Nil

\* Compare up to the construction of the Report: applyDefaults with the
\* configuration cfg it read, the classification, the sorts and the cuts
compareReport(b, t, o, cfg) ==
    LET effective    == applyDefaults(o, cfg.Diff)
        entries      == entriesOf(aggregate(b.Root), aggregate(t.Root))
        regressions  == FilterSeq(entries,
                            { e \in { entries[i] : i \in 1..Len(entries) } :
                                passesRegression(e, effective) })
        improvements == FilterSeq(entries,
                            { e \in { entries[i] : i \in 1..Len(entries) } :
                                improves(e, effective) })
        sortedRegs   == SortSliceDesc(regressions,
                            [i \in 1..Len(regressions) |-> RatOf(regressions[i].DeltaSelfMs)])
        sortedImps   == SortSliceDesc(improvements,
                            [i \in 1..Len(improvements) |-> RatOf(-improvements[i].DeltaSelfMs)])
    IN  [Summary      |-> [BaseExecutionMs   |-> b.TotalTimeMs,
                           TargetExecutionMs |-> t.TotalTimeMs,
                           DeltaExecutionMs  |-> t.TotalTimeMs - b.TotalTimeMs,
                           PercentExecution  |-> percentChange(b.TotalTimeMs, t.TotalTimeMs),
                           BasePlanningMs    |-> b.PlanningTimeMs,
                           TargetPlanningMs  |-> t.PlanningTimeMs,
                           DeltaPlanningMs   |-> t.PlanningTimeMs - b.PlanningTimeMs,
                           PercentPlanning   |-> percentChange(b.PlanningTimeMs,
                                                               t.PlanningTimeMs)],
         Regressions  |-> truncate(sortedRegs, effective.MaxItems),
         Improvements |-> truncate(sortedImps, effective.MaxItems),
         Insights     |-> <<>>,
         Options      |-> effective]

\* synthesizeInsights: the message of one regression; the text is kept as its
\* parts (what it is about, which detail follows)
regressionInsight(entry, diffCfg) ==
    LET level == IF entry.DeltaSelfMs < diffCfg.CriticalDeltaMs
                    /\ entry.DeltaSelfMs >= diffCfg.WarningDeltaMs THEN "warning"
                 ELSE IF entry.DeltaSelfMs < diffCfg.WarningDeltaMs THEN "warning"
                 ELSE "critical"
    IN  [Severity |-> level,
         Message  |-> [about  |-> "self time up",
                       Signature |-> entry.Signature,
                       detail |-> IF entry.DeltaTempBlocks > 0 THEN "temp"
                                  ELSE IF entry.DeltaBuffers > 0 THEN "buffers" ELSE ""]]

\* synthesizeInsights: the message of one improvement
improvementInsight(entry) ==
    [Severity |-> "improvement",
     Message  |-> [about  |-> "self time down",
                   Signature |-> entry.Signature,
                   detail |-> IF entry.DeltaTempBlocks < 0 THEN "temp"
                              ELSE IF entry.DeltaBuffers < 0 THEN "buffers" ELSE ""]]

\* synthesizeInsights: the messages of the listed regressions that began to spill
RECURSIVE spillInsights(_, _)
spillInsights(regressions, insightCfg) ==
    IF regressions = <<>> THEN <<>>
    ELSE (IF Head(regressions).BaseTempBlocks = 0
             /\ Head(regressions).TargetTempBlocks >= insightCfg.SpillNewBlocks
          THEN << [Severity |-> "warning",
                   Message  |-> [about |-> "began spilling to disk",
                                 Signature |-> Head(regressions).Signature,
                                 detail |-> ""]] >>
          ELSE <<>>)
         \o spillInsights(Tail(regressions), insightCfg)

\* synthesizeInsights, with the configuration cfg it read
synthesizeInsights(r, cfg) ==
    LET nRegs == IF Len(r.Regressions) < 3 THEN Len(r.Regressions) ELSE 3
        nImps == IF Len(r.Improvements) < 3 THEN Len(r.Improvements) ELSE 3
    IN  [i \in 1..nRegs |-> regressionInsight(r.Regressions[i], cfg.Diff)]
        \o [i \in 1..nImps |-> improvementInsight(r.Improvements[i])]
        \o spillInsights(r.Regressions, cfg.Insights)

----------------------------------------------------------------------------
(* Insight Engine *)

\* NodeStats.ActualLoops: the node's effective loop count
ActualLoopsOf(stats) == effectiveLoops(stats.Node)

\* PlanAnalysis.BufferHeavy: the nodes that touched buffers, heaviest first
BufferHeavy(a) ==
    LET all   == flatten(a.Root)
        heavy == FilterSeq(all, { n \in { all[i] : i \in 1..Len(all) } : Total(n.Buffers) > 0 })
    IN  SortSliceDesc(heavy, [i \in 1..Len(heavy) |-> RatOf(Total(heavy[i].Buffers))])

\* walkNodes, each node with its NodeStats.Parent (Nil at the root)
RECURSIVE walkWithParent(_, _), walkAllWithParent(_, _)
walkWithParent(node, parent) ==
    <<[node |-> node, parent |-> parent]>> \o walkAllWithParent(node.Children, node)

walkAllWithParent(children, parent) ==
    IF children = <<>> THEN <<>>
    ELSE walkWithParent(Head(children), parent) \o walkAllWithParent(Tail(children), parent)

\* walkNodes: the node, then its children in order
walkNodes(root) == flatten(root)

\* NodeLabel: node type and relation name (no node of the model has an alias)
NodeLabel(node) ==
    <<node.Node.NodeType>>
    \o (IF node.Node.RelationName # "" THEN <<node.Node.RelationName>> ELSE <<>>)

\* CompactLabel: labels of the model are shorter than 60 characters
CompactLabel(node) == NodeLabel(node)

\* AnchorID: the label, lower-cased and with its punctuation replaced
AnchorID(node) == [anchor |-> NodeLabel(node)]

\* strings.Contains(nodeType, "Scan") on the node types of the model
ContainsScan(nodeType) == nodeType \in {"Seq Scan", "Index Scan"}

\* strings.Contains(nodeType, "Seq Scan") on the node types of the model
ContainsSeqScan(nodeType) == nodeType = "Seq Scan"

\* Message; Text holds the rule that wrote it and the values it formats
Message(severity, text, anchor) == [Severity |-> severity, Text |-> text, Anchor |-> anchor]

\* severityForHotspot
severityForHotspot(node, cfg) ==
    IF RatGE(node.PercentExclusive, cfg.HotspotCriticalPercent) THEN "critical"
    ELSE IF RatGE(node.PercentExclusive, cfg.HotspotWarningPercent) THEN "warning"
    ELSE "info"

\* hotspotMessage
hotspotMessage(a, cfg) ==
    IF Len(a.HotNodes) = 0 THEN <<>>
    ELSE LET hot == a.HotNodes[1]
         IN  << Message(severityForHotspot(hot, cfg),
                        [rule    |-> "Hot spot",
                         node    |-> CompactLabel(hot),
                         self    |-> hot.ExclusiveTimeMs,
                         percent |-> hot.PercentExclusive,
                         buffers |-> Total(hot.Buffers),
                         hint    |-> ContainsSeqScan(hot.Node.NodeType)
                                     /\ Total(hot.Buffers) > cfg.SeqScanBufferHint],
                        AnchorID(hot)) >>

\* driftMessages: one message for each of the first two divergent nodes
driftMessages(a, cfg) ==
    LET n == IF Len(a.DivergentNodes) < 2 THEN Len(a.DivergentNodes) ELSE 2
    IN  [i \in 1..n |->
            LET node == a.DivergentNodes[i]
            IN  Message(IF RatGE(node.RowEstimateFactor, cfg.RowEstimateCriticalHigh)
                           \/ RatLE(node.RowEstimateFactor, cfg.RowEstimateCriticalLow)
                        THEN "critical" ELSE "warning",
                        [rule     |-> "Estimate drift",
                         node     |-> CompactLabel(node),
                         expected |-> node.EstimatedRows,
                         got      |-> node.ActualTotalRows,
                         ratio    |-> node.RowEstimateFactor],
                        AnchorID(node))]

\* isWrapperNode
isWrapperNode(nodeType) ==
    nodeType \in {"Limit", "Sort", "Gather", "Gather Merge", "Incremental Sort", "Unique",
                  "Materialize"}

\* the heaviest node of the list, whatever its type and the hot list
selectBufferCandidateHeaviest(a) ==
    IF Len(BufferHeavy(a)) = 0 THEN Nil ELSE BufferHeavy(a)[1]

\* selectBufferCandidate: Nil when there is none
selectBufferCandidate(a) ==
    LET heavy  == BufferHeavy(a)
        proper == FilterSeq(heavy, { n \in { heavy[i] : i \in 1..Len(heavy) } :
                                       Total(n.Buffers) # 0 /\ ~isWrapperNode(n.Node.NodeType) })
    IN  IF Len(heavy) = 0 THEN Nil
        ELSE IF Len(a.HotNodes) > 0 /\ Total(a.HotNodes[1].Buffers) > 0
                /\ ~isWrapperNode(a.HotNodes[1].Node.NodeType)
        THEN a.HotNodes[1]
        ELSE IF Len(proper) > 0 THEN proper[1]
        ELSE heavy[1]

\* bufferMessage
bufferMessage(a, cfg) ==
    LET candidate == selectBufferCandidate(a)
    IN  IF candidate = Nil THEN <<>>
        ELSE LET buf == Total(candidate.Buffers)
             IN  << Message(IF buf >= cfg.BufferCriticalBlocks THEN "critical"
                            ELSE IF buf >= cfg.BufferWarningBlocks THEN "warning"
                            ELSE "info",
                            [rule |-> "Buffer churn", node |-> CompactLabel(candidate),
                             buffers |-> buf],
                            AnchorID(candidate)) >>

\* parallelLimitMessage: the first Gather under a Limit that keeps less than
\* the configured share of its estimate
parallelLimitMessage(a, cfg) ==
    LET visits == walkWithParent(a.Root, Nil)
        short(v) ==
            IF v.parent = Nil THEN FALSE
            ELSE /\ v.node.Node.NodeType \in {"Gather", "Gather Merge"}
                 /\ v.parent.Node.NodeType = "Limit"
                 /\ v.node.EstimatedRows > 0
                 /\ RatLT(RatDiv(v.node.ActualTotalRows, v.node.EstimatedRows),
                          cfg.ParallelLimitKeepRatio)
        found == FilterSeq(visits, { v \in { visits[i] : i \in 1..Len(visits) } : short(v) })
    IN  IF Len(found) = 0 THEN <<>>
        ELSE << Message("warning",
                        [rule |-> "Parallel gather", reads |-> found[1].node.EstimatedRows,
                         keeps |-> found[1].node.ActualTotalRows],
                        AnchorID(found[1].node)) >>

\* temp blocks read and written by a node
tempBlocksOf(node) == node.Buffers.TempRead + node.Buffers.TempWritten

\* the two nodes of any type with the most temp blocks
spillMessagesAnyType(a, cfg) ==
    LET all        == walkNodes(a.Root)
        unsorted   == FilterSeq(all, { n \in { all[i] : i \in 1..Len(all) } :
                          tempBlocksOf(n) >= cfg.SpillNewBlocks })
        candidates == SortSliceDesc(unsorted,
                          [i \in 1..Len(unsorted) |-> RatOf(tempBlocksOf(unsorted[i]))])
        limit      == IF Len(candidates) < 2 THEN Len(candidates) ELSE 2
    IN  [i \in 1..limit |->
            LET node == candidates[i]
            IN  Message(IF tempBlocksOf(node) >= 20000 THEN "critical"
                        ELSE IF tempBlocksOf(node) < 2000 THEN "info"
                        ELSE "warning",
                        [rule |-> "spilled to disk", node |-> CompactLabel(node),
                         blocks |-> tempBlocksOf(node),
                         advice |-> IF node.Node.NodeType \in {"Sort", "Incremental Sort"}
                                    THEN "work_mem or index" ELSE "work_mem or join"],
                        AnchorID(node))]

\* spillMessages: the two sort or hash nodes with the most temp blocks
spillMessages(a, cfg) ==
    LET all        == walkNodes(a.Root)
        unsorted   == FilterSeq(all, { n \in { all[i] : i \in 1..Len(all) } :
                          /\ tempBlocksOf(n) >= cfg.SpillNewBlocks
                          /\ n.Node.NodeType \in {"Sort", "Incremental Sort", "Hash",
                                                  "Hash Join"} })
        candidates == SortSliceDesc(unsorted,
                          [i \in 1..Len(unsorted) |-> RatOf(tempBlocksOf(unsorted[i]))])
        limit      == IF Len(candidates) < 2 THEN Len(candidates) ELSE 2
    IN  [i \in 1..limit |->
            LET node == candidates[i]
            IN  Message(IF tempBlocksOf(node) >= 20000 THEN "critical"
                        ELSE IF tempBlocksOf(node) < 2000 THEN "info"
                        ELSE "warning",
                        [rule |-> "spilled to disk", node |-> CompactLabel(node),
                         blocks |-> tempBlocksOf(node),
                         advice |-> IF node.Node.NodeType \in {"Sort", "Incremental Sort"}
                                    THEN "work_mem or index" ELSE "work_mem or join"],
                        AnchorID(node))]

\* a severity that turns critical only above the critical threshold
nestedLoopSeverityAbove(loops, cfg) ==
    IF loops > cfg.NestedLoopCriticalLoops THEN "critical"
    ELSE IF loops < cfg.NestedLoopWarnLoops * 2 THEN "info"
    ELSE "warning"

\* nestedLoopMessages: the severity of a child invoked loops times
nestedLoopSeverity(loops, cfg) ==
    IF loops >= cfg.NestedLoopCriticalLoops THEN "critical"
    ELSE IF loops < cfg.NestedLoopWarnLoops * 2 THEN "info"
    ELSE "warning"

\* nestedLoopMessages: the children of a node that are scans invoked more
\* often than the warn threshold, in order
amplified(node, cfg) ==
    FilterSeq(node.Children,
              { c \in { node.Children[i] : i \in 1..Len(node.Children) } :
                  ActualLoopsOf(c) > cfg.NestedLoopWarnLoops /\ ContainsScan(c.Node.NodeType) })

\* nestedLoopMessages: one message for the first such child of each Nested
\* Loop node, in the order of the walk
RECURSIVE nestedLoopWalk(_, _)
nestedLoopWalk(nodes, cfg) ==
    IF nodes = <<>> THEN <<>>
    ELSE LET node == Head(nodes)
             hits == IF node.Node.NodeType = "Nested Loop" THEN amplified(node, cfg) ELSE <<>>
         IN  (IF Len(hits) = 0 THEN <<>>
              ELSE << Message(nestedLoopSeverity(ActualLoopsOf(hits[1]), cfg),
                              [rule  |-> "Nested Loop", node |-> CompactLabel(node),
                               child |-> CompactLabel(hits[1]),
                               times |-> ActualLoopsOf(hits[1])],
                              AnchorID(node)) >>)
             \o nestedLoopWalk(Tail(nodes), cfg)

\* nestedLoopMessages: at most the first two
nestedLoopMessages(a, cfg) ==
    LET msgs == nestedLoopWalk(walkNodes(a.Root), cfg)
    IN  IF Len(msgs) > 2 THEN Prefix(msgs, 2) ELSE msgs

\* a BuildMessages that appends the nested-loop messages before the spills
BuildMessagesLoopsFirst(a, cfg) ==
    IF a = Nil THEN <<>>
    ELSE hotspotMessage(a, cfg.Insights) \o driftMessages(a, cfg.Insights)
         \o bufferMessage(a, cfg.Insights) \o parallelLimitMessage(a, cfg.Insights)
         \o nestedLoopMessages(a, cfg.Insights) \o spillMessages(a, cfg.Insights)

\* BuildMessages under the configuration cfg that Active() returns to each rule
BuildMessages(a, cfg) ==
    IF a = Nil THEN <<>>
    ELSE hotspotMessage(a, cfg.Insights) \o driftMessages(a, cfg.Insights)
         \o bufferMessage(a, cfg.Insights) \o parallelLimitMessage(a, cfg.Insights)
         \o spillMessages(a, cfg.Insights) \o nestedLoopMessages(a, cfg.Insights)

\* encoding/json on a float64: +Inf, -Inf and NaN are unsupported values,
\* every other value is written as a number
floatEncoder(x) ==
    IF RatIsInf(x) THEN [err |-> TRUE, text |-> "unsupported value"]
    ELSE [err |-> FALSE, text |-> x]

\* the float64 fields of an Entry that hold a quotient; the others hold sums
\* and differences of finite numbers
entryQuotients(e) == <<e.PercentChange, e.BaseRowFactor, e.TargetRowFactor>>

\* json.MarshalIndent fails on the first unsupported value
marshalFails(r) ==
    \/ floatEncoder(r.Summary.PercentExecution).err
    \/ floatEncoder(r.Summary.PercentPlanning).err
    \/ \E list \in {r.Regressions, r.Improvements} : \E i \in 1..Len(list) :
          \E k \in 1..3 : floatEncoder(entryQuotients(list[i])[k]).err

\* Report.JSON: the document has every field of the Report but Options
JSON(r) ==
    IF r = Nil THEN [err |-> TRUE, doc |-> Nil]
    ELSE IF marshalFails(r) THEN [err |-> TRUE, doc |-> Nil]
    ELSE [err |-> FALSE,
          doc |-> [summary |-> r.Summary, regressions |-> r.Regressions,
                   improvements |-> r.Improvements, insights |-> r.Insights]]

----------------------------------------------------------------------------
(* Initial values of the parts a run does not use *)

\* no Use or Apply call was made
NoWrite == [op |-> "none", path |-> "", err |-> FALSE, before |-> Default]

\* the configuration at process start
DefaultConfig ==
    /\ active = Default
    /\ installed = {}
    /\ lastWrite = NoWrite
    /\ writes = 0

\* no result was produced yet
NoResults ==
    /\ second = Nil
    /\ jsonOut = Nil
    /\ aggregates = Nil
    /\ messages = Nil
    /\ numeric = Nil

\* no Analyze call is made
NoAnalyze ==
    /\ explain = Nil
    /\ analysis = Nil
    /\ analyzeErr = FALSE

\* no Compare call is made
NoCompare ==
    /\ base = Nil
    /\ target = Nil
    /\ opts = Options(0, 0, 0)
    /\ report = Nil
    /\ compareErr = FALSE

----------------------------------------------------------------------------
(* The analyze command: one plan is analysed *)

\* actual total times (ms) and loop counts a plan document can carry; the
\* parser reads any JSON number, negative ones included
Times == {-3, 0, 12}

Loops == {0, 1, 3}

\* the nodes of the plans handed to Analyze
AnalyzeNodes ==
    { PlanNode("Seq Scan", "t", 10, time, 20, loops, NoBuffers) :
        time \in Times, loops \in Loops }

\* the Explain handed to Analyze: nil, one without a Plan, or a plan tree
InitAnalyze ==
    /\ \/ explain = Nil
       \/ explain = Explain(Nil, 1, 13)
       \/ \E shape \in Shapes(MaxNodes) :
            \E nodes \in [1..Size(shape) -> AnalyzeNodes] :
                explain = Explain(PlanTree(shape, nodes, 1), 1, 13)
    /\ analysis = Nil
    /\ analyzeErr = FALSE
    /\ pc = "start"
    /\ NoCompare
    /\ DefaultConfig
    /\ NoResults
    /\ snaps = <<>>

\* Analyze(explain) fails: the Explain or its Plan is absent
AnalyzeFail ==
    /\ pc = "start"
    /\ Analyze(explain).err
    /\ analysis' = Nil
    /\ analyzeErr' = TRUE
    /\ pc' = "analyzed"
    /\ UNCHANGED <<explain, compareVars, configVars, snaps, resultVars>>

\* Analyze(explain) succeeds
AnalyzeOk ==
    /\ pc = "start"
    /\ ~Analyze(explain).err
    /\ analysis' = Analyze(explain).analysis
    /\ analyzeErr' = FALSE
    /\ pc' = "analyzed"
    /\ UNCHANGED <<explain, compareVars, configVars, snaps, resultVars>>

\* an Analyze call that reuses the hot list of the call before it
AnalyzeKeepingHot(previous, e) ==
    IF previous = Nil \/ Analyze(e).err THEN Analyze(e)
    ELSE [Analyze(e) EXCEPT !.analysis.HotNodes = previous.HotNodes \o @]

\* a further Analyze call: Analyze reads its argument and no package state,
\* so nothing of the call before it enters the result
AnalyzeAfter(previous, e) == Analyze(e)

\* the caller runs Analyze on the same Explain a second time
AnalyzeAgain ==
    /\ pc = "analyzed"
    /\ second' = AnalyzeAfter(analysis, explain)
    /\ pc' = "reanalyzed"
    /\ UNCHANGED <<analyzeVars, compareVars, configVars, snaps, jsonOut, aggregates, messages, numeric>>

NextAnalyze == AnalyzeFail \/ AnalyzeOk \/ AnalyzeAgain

SpecAnalyze == InitAnalyze /\ [][NextAnalyze]_vars

----------------------------------------------------------------------------
(* Analyzer: timing invariants and failure *)

\* Analyze has returned a PlanAnalysis
Analyzed == pc \in {"analyzed", "reanalyzed"} /\ ~analyzeErr

\* the NodeStats of the returned analysis
StatsNodes == LET all == flatten(analysis.Root) IN { all[i] : i \in 1..Len(all) }

RECURSIVE SumExclusive(_)
SumExclusive(nodes) ==
    IF nodes = <<>> THEN 0 ELSE Head(nodes).ExclusiveTimeMs + SumExclusive(Tail(nodes))

\* no negative actual total time at the node or at one of its children
TimesNonNegative(n) ==
    /\ n.Node.ActualTotalTime >= 0
    /\ \A i \in 1..Len(n.Children) : n.Children[i].Node.ActualTotalTime >= 0

\* the children's inclusive times add up to more than the node's own
Clamped(n) == childTimeOf(n.Children) > n.InclusiveTimeMs

\* C1 as stated: for every node of every plan that Analyze accepts, the
\* exclusive time is >= 0 and <= the node's inclusive time.
C1_ExclusiveWithinInclusive ==
    Analyzed => \A n \in StatsNodes :
        n.ExclusiveTimeMs >= 0 /\ n.ExclusiveTimeMs <= n.InclusiveTimeMs

\* C1 amended: for every node of every plan that Analyze accepts, the exclusive
\* time is >= 0; it is <= the node's inclusive time whenever neither the node
\* nor any of its children reports a negative actual total time.
C1_ExclusiveBounds ==
    Analyzed => \A n \in StatsNodes :
        /\ n.ExclusiveTimeMs >= 0
        /\ TimesNonNegative(n) => n.ExclusiveTimeMs <= n.InclusiveTimeMs

\* C1 witness: a node with non-negative times whose children take longer than
\* it does, so that the clamp decided its exclusive time
C1_Witness ==
    /\ Analyzed
    /\ \E n \in StatsNodes :
        TimesNonNegative(n) /\ Clamped(n) /\ n.InclusiveTimeMs > 0 /\ n.ExclusiveTimeMs = 0

\* C2 as stated: the exclusive times of all nodes add up to the root's
\* inclusive time (TotalTimeMs).
C2_ExclusiveSumsToTotal ==
    Analyzed => SumExclusive(flatten(analysis.Root)) = analysis.TotalTimeMs

\* C2 amended: the exclusive times of all nodes add up to at least the root's
\* inclusive time (TotalTimeMs), and to exactly that when no node's children
\* have a larger inclusive sum than the node itself (no exclusive time was
\* clamped), and only then.
C2_ExclusiveSum ==
    Analyzed =>
        /\ SumExclusive(flatten(analysis.Root)) >= analysis.TotalTimeMs
        /\ SumExclusive(flatten(analysis.Root)) = analysis.TotalTimeMs
              <=> \A n \in StatsNodes : ~Clamped(n)

\* C2 witness: a plan of a parent with two children, all with time, nothing
\* clamped, whose exclusive times add up to the total
C2_Witness ==
    /\ Analyzed
    /\ Len(analysis.Root.Children) = 2
    /\ \A n \in StatsNodes : ~Clamped(n) /\ n.InclusiveTimeMs > 0
    /\ SumExclusive(flatten(analysis.Root)) = analysis.TotalTimeMs

\* C3: Analyze returns an error, and no PlanAnalysis, exactly when the Explain
\* value or its Plan root is absent; a plan with a root is analysed whatever
\* statistics it lacks.
C3_AnalyzeFailsOnlyOnMissingPlan ==
    pc = "analyzed" =>
        /\ analyzeErr <=> (IF explain = Nil THEN TRUE ELSE explain.Plan = Nil)
        /\ analyzeErr <=> analysis = Nil

\* C3 witness: a plan without runtime statistics (loops 0, time 0) was analysed
C3_Witness ==
    /\ Analyzed
    /\ explain.Plan.ActualLoops = 0
    /\ explain.Plan.ActualTotalTime = 0
    /\ analysis.Root.InclusiveTimeMs = 0


\* C12: whenever Analyze succeeds on a plan in which at least one node has
\* nonzero exclusive time, HotNodes is non-empty.
C12_HotNodesNonEmpty ==
    Analyzed => ((\E n \in StatsNodes : n.ExclusiveTimeMs # 0) => Len(analysis.HotNodes) > 0)

----------------------------------------------------------------------------
(* Compare, step by step: each step reads the configuration once *)

\* Compare refuses an absent analysis or root
CompareFail ==
    /\ pc = "compare"
    /\ missingAnalysis(base) \/ missingAnalysis(target)
    /\ report' = Nil
    /\ compareErr' = TRUE
    /\ pc' = "compared"
    /\ UNCHANGED <<base, target, opts, analyzeVars, configVars, snaps, resultVars>>

\* Compare from applyDefaults (which calls config.Active) to the Report
CompareBegin ==
    /\ pc = "compare"
    /\ ~(missingAnalysis(base) \/ missingAnalysis(target))
    /\ report' = compareReport(base, target, opts, Active(active))
    /\ snaps' = Append(snaps, Active(active))
    /\ compareErr' = FALSE
    /\ pc' = "insights"
    /\ UNCHANGED <<base, target, opts, analyzeVars, configVars, resultVars>>

\* synthesizeInsights (which calls config.Active again) and the return
CompareFinish ==
    /\ pc = "insights"
    /\ report' = [report EXCEPT !.Insights = synthesizeInsights(report, Active(active))]
    /\ snaps' = Append(snaps, Active(active))
    /\ pc' = "compared"
    /\ UNCHANGED <<base, target, opts, compareErr, analyzeVars, configVars, resultVars>>

----------------------------------------------------------------------------
(* The diff command: the configuration is loaded, two analyses are compared *)

\* the nodes of the plans handed to the diff command
DiffNodes ==
    { PlanNode("Seq Scan", "t", 10, 2, 20, 1, NoBuffers),
      PlanNode("Seq Scan", "t", 10, 12, 20, 1, NoBuffers),
      PlanNode("Sort", "", 10, 0, 20, 1, NoBuffers),
      PlanNode("Sort", "", 0, 2, 20, 1, NoBuffers) }

\* the Options handed to Compare: all unset, all set, or one set next to a
\* negative and an unset one
DiffOptions == { Options(0, 0, 0), Options(2, 5, 1), Options(-1, 7, 0) }

\* a PlanAnalysis without a Root
Rootless ==
    [Root |-> Nil, PlanningTimeMs |-> 0, ExecutionTimeMs |-> 0, TotalTimeMs |-> 0,
     NodeCount |-> 0, HotNodes |-> <<>>, DivergentNodes |-> <<>>]

\* the configuration after the command applied the path of --config
ConfigLoaded(path) ==
    /\ active = Apply(path, Default).active
    /\ installed = {active}
    /\ lastWrite = [op |-> "apply", path |-> path, err |-> FALSE, before |-> Default]
    /\ writes = 1

InitDiff ==
    /\ NoAnalyze
    /\ \/ base \in {Nil, Rootless}
       \/ \E shape \in Shapes(MaxDiffNodes) :
            \E nodes \in [1..Size(shape) -> DiffNodes] :
                base = Analyze(Explain(PlanTree(shape, nodes, 1), 1, 13)).analysis
    /\ \/ target \in {Nil, Rootless}
       \/ \E shape \in Shapes(MaxDiffNodes) :
            \E nodes \in [1..Size(shape) -> DiffNodes] :
                target = Analyze(Explain(PlanTree(shape, nodes, 1), 1, 13)).analysis
    /\ opts \in DiffOptions
    /\ report = Nil
    /\ compareErr = FALSE
    /\ \E path \in {"", "lax", "nolimit"} : ConfigLoaded(path)
    /\ NoResults
    /\ snaps = <<>>
    /\ pc = "compare"

\* the diff command with --format json: report.JSON()
ReportJSON ==
    /\ pc = "compared"
    /\ ~compareErr
    /\ jsonOut' = JSON(report)
    /\ pc' = "serialized"
    /\ UNCHANGED <<analyzeVars, compareVars, configVars, snaps, second, aggregates, messages, numeric>>

NextDiff == CompareFail \/ CompareBegin \/ CompareFinish \/ ReportJSON

SpecDiff == InitDiff /\ [][NextDiff]_vars

----------------------------------------------------------------------------
(* Diff Engine: classification and failure *)

\* Compare has returned a Report
Compared == pc = "compared" /\ ~compareErr

\* every signature of either tree with its metrics
AllEntries ==
    LET entries == entriesOf(aggregate(base.Root), aggregate(target.Root))
    IN  { entries[i] : i \in 1..Len(entries) }

Listed(list, e) == \E i \in 1..Len(list) : list[i] = e

\* delta self-time >= min-delta and percent change >= min-percent
RegressionTest(e, o) ==
    /\ e.TargetSelfMs - e.BaseSelfMs >= o.MinSelfTimeDeltaMs
    /\ RatGE(e.PercentChange, RatOf(o.MinPercentChange))

\* delta self-time <= -min-delta and percent change <= -min-percent
ImprovementTest(e, o) ==
    /\ e.TargetSelfMs - e.BaseSelfMs <= -o.MinSelfTimeDeltaMs
    /\ RatLE(e.PercentChange, RatOf(-o.MinPercentChange))

\* the list was cut to MaxItems entries
Cut(list, o) == o.MaxItems > 0 /\ Len(list) = o.MaxItems

\* C4 as stated: a signature is in Regressions if and only if its delta
\* self-time >= min-delta and its percent change >= min-percent, and in
\* Improvements if and only if delta <= -min-delta and percent change <=
\* -min-percent; with default thresholds a signature rising from 2 ms to 12 ms
\* is in Regressions with DeltaSelfMs = 10.
C4_ClassifiedExactly ==
    Compared => \A e \in AllEntries :
        /\ Listed(report.Regressions, e) <=> RegressionTest(e, report.Options)
        /\ Listed(report.Improvements, e) <=> ImprovementTest(e, report.Options)
        /\ (report.Options = Options(2, 5, 8) /\ e.BaseSelfMs = 2 /\ e.TargetSelfMs = 12)
              => Listed(report.Regressions, e) /\ e.DeltaSelfMs = 10

\* C4 amended: a signature is in Regressions only if it meets the regression
\* test, and in Improvements only if it meets the improvement test and not the
\* regression test; a signature that meets the regression test, or the
\* improvement test and not the regression test, is in the corresponding list
\* unless that list was cut to MaxItems entries.  With default thresholds
\* (2 ms, 5%, 8 entries) a signature rising from 2 ms to 12 ms is in
\* Regressions with DeltaSelfMs = 10 unless Regressions was cut.
C4_Classified ==
    Compared => \A e \in AllEntries :
        /\ Listed(report.Regressions, e) => RegressionTest(e, report.Options)
        /\ Listed(report.Improvements, e) =>
              ImprovementTest(e, report.Options) /\ ~RegressionTest(e, report.Options)
        /\ RegressionTest(e, report.Options) =>
              Listed(report.Regressions, e) \/ Cut(report.Regressions, report.Options)
        /\ (ImprovementTest(e, report.Options) /\ ~RegressionTest(e, report.Options)) =>
              Listed(report.Improvements, e) \/ Cut(report.Improvements, report.Options)
        /\ (report.Options = Options(2, 5, 8) /\ e.BaseSelfMs = 2 /\ e.TargetSelfMs = 12) =>
              /\ e.DeltaSelfMs = 10
              /\ Listed(report.Regressions, e) \/ Cut(report.Regressions, report.Options)

\* C4 witness: under the default thresholds a signature rose from 2 ms to
\* 12 ms and is listed in Regressions with DeltaSelfMs = 10
C4_Witness ==
    /\ Compared
    /\ report.Options = Options(2, 5, 8)
    /\ \E i \in 1..Len(report.Regressions) :
        /\ report.Regressions[i].BaseSelfMs = 2
        /\ report.Regressions[i].TargetSelfMs = 12
        /\ report.Regressions[i].DeltaSelfMs = 10

\* C5: no signature appears in both Regressions and Improvements of a Report.
C5_RegressionsDisjointFromImprovements ==
    Compared => \A i \in 1..Len(report.Regressions) : \A j \in 1..Len(report.Improvements) :
        report.Regressions[i].Signature # report.Improvements[j].Signature

\* C5 witness: with thresholds of zero a signature whose self time did not
\* change meets both tests; it is listed as a regression, next to an improvement
C5_Witness ==
    /\ Compared
    /\ Len(report.Improvements) > 0
    /\ \E i \in 1..Len(report.Regressions) :
        /\ RegressionTest(report.Regressions[i], report.Options)
        /\ ImprovementTest(report.Regressions[i], report.Options)

\* C6: Compare returns an error and no Report when the base analysis or its
\* root, or the target analysis or its root, is absent; otherwise it returns
\* a Report and no error.
C6_CompareFailsOnlyOnMissingRoot ==
    pc = "compared" =>
        /\ compareErr <=> \/ (IF base = Nil THEN TRUE ELSE base.Root = Nil)
                          \/ (IF target = Nil THEN TRUE ELSE target.Root = Nil)
        /\ compareErr <=> report = Nil

\* C6 witness: the base is whole, the target has no root, and Compare failed
C6_Witness ==
    /\ pc = "compared"
    /\ compareErr
    /\ report = Nil
    /\ ~missingAnalysis(base)
    /\ target = Rootless

\* the entries Compare classifies as regressions and as improvements
RegressionsOf(o) == { e \in AllEntries : RegressionTest(e, o) }

ImprovementsOf(o) == { e \in AllEntries : ImprovementTest(e, o) /\ ~RegressionTest(e, o) }

\* Regressions by non-increasing delta, Improvements by non-decreasing delta
Ordered ==
    /\ \A i, j \in 1..Len(report.Regressions) :
          i < j => report.Regressions[i].DeltaSelfMs >= report.Regressions[j].DeltaSelfMs
    /\ \A i, j \in 1..Len(report.Improvements) :
          i < j => report.Improvements[i].DeltaSelfMs <= report.Improvements[j].DeltaSelfMs

\* no entry left out of a list has a larger magnitude than one kept in it
LargestKept ==
    /\ \A e \in RegressionsOf(report.Options) : \A i \in 1..Len(report.Regressions) :
          ~Listed(report.Regressions, e) => report.Regressions[i].DeltaSelfMs >= e.DeltaSelfMs
    /\ \A e \in ImprovementsOf(report.Options) : \A i \in 1..Len(report.Improvements) :
          ~Listed(report.Improvements, e) => report.Improvements[i].DeltaSelfMs <= e.DeltaSelfMs

\* C15 as stated: Regressions is ordered by non-increasing DeltaSelfMs and
\* Improvements by non-decreasing DeltaSelfMs, each list has at most the
\* effective MaxItems entries, and the entries kept by a truncation are those
\* of the largest magnitude.
C15_SortedAndWithinMaxItems ==
    Compared =>
        /\ Ordered
        /\ Len(report.Regressions) <= report.Options.MaxItems
        /\ Len(report.Improvements) <= report.Options.MaxItems
        /\ LargestKept

\* C15 amended: the lists are ordered as stated; each list has at most the
\* effective MaxItems entries when the effective MaxItems is positive, and
\* every classified entry when it is not; the entries kept by a truncation
\* are those of the largest magnitude.
C15_SortedAndCut ==
    Compared =>
        /\ Ordered
        /\ LargestKept
        /\ IF report.Options.MaxItems > 0
           THEN /\ Len(report.Regressions) <= report.Options.MaxItems
                /\ Len(report.Improvements) <= report.Options.MaxItems
           ELSE /\ Len(report.Regressions) = Cardinality(RegressionsOf(report.Options))
                /\ Len(report.Improvements) = Cardinality(ImprovementsOf(report.Options))

\* C15 witness: two signatures regressed by different amounts, MaxItems is 1,
\* and the one of the larger delta was kept
C15_Witness ==
    /\ Compared
    /\ report.Options.MaxItems = 1
    /\ Len(report.Regressions) = 1
    /\ \E e \in RegressionsOf(report.Options) :
          /\ ~Listed(report.Regressions, e)
          /\ e.DeltaSelfMs < report.Regressions[1].DeltaSelfMs

\* the value Compare uses for an option: the option when positive, the
\* configured value otherwise
Effective(given, configured) == IF given > 0 THEN given ELSE configured

\* C16: each option that is unset or non-positive is replaced by the value of
\* the active configuration's Diff section, each positive option is used as
\* given, and the Report's Options field holds the effective values.
C16_OptionsFallBackToConfiguration ==
    Compared =>
        /\ report.Options.MinSelfTimeDeltaMs =
              Effective(opts.MinSelfTimeDeltaMs, active.Diff.MinSelfDeltaMs)
        /\ report.Options.MinPercentChange =
              Effective(opts.MinPercentChange, active.Diff.MinPercentChange)
        /\ report.Options.MaxItems = Effective(opts.MaxItems, active.Diff.MaxItems)

\* C16 witness: under a loaded configuration a negative and an unset option
\* were replaced by the configured values and a positive one was kept
C16_Witness ==
    /\ Compared
    /\ active # Default
    /\ opts = Options(-1, 7, 0)
    /\ report.Options = Options(active.Diff.MinSelfDeltaMs, 7, active.Diff.MaxItems)
    /\ active.Diff.MaxItems # Default.Diff.MaxItems

\* Report.JSON has returned
Serialized == pc = "serialized"

\* some listed entry has a row factor of +infinity
ListsInfiniteFactor ==
    \E list \in {report.Regressions, report.Improvements} : \E i \in 1..Len(list) :
        RatIsInf(list[i].BaseRowFactor) \/ RatIsInf(list[i].TargetRowFactor)

\* C11: for every Report that Compare returns, one with a listed entry whose
\* base or target row factor is +infinity included, Report.JSON succeeds and
\* the document holds the report's entries, the infinite factor among them.
C11_JSONSucceedsOnInfiniteFactor ==
    Serialized =>
        /\ ~jsonOut.err
        /\ jsonOut.doc # Nil
        /\ ListsInfiniteFactor =>
              IF jsonOut.doc = Nil THEN FALSE
              ELSE jsonOut.doc.regressions = report.Regressions
                   /\ jsonOut.doc.improvements = report.Improvements

----------------------------------------------------------------------------
(* Configuration writers running beside a Compare call *)

\* a configuration that differs from the default in both sections
Tuned ==
    [Insights |-> [Default.Insights EXCEPT !.HotspotCriticalPercent = RatDiv(90, 100),
                                           !.SeqScanBufferHint = 10,
                                           !.SpillNewBlocks = 50],
     Diff     |-> [Default.Diff EXCEPT !.MinSelfDeltaMs = 1, !.CriticalDeltaMs = 20]]

\* the Config values handed to Use
UseInputs == {Default, Tuned}

\* config.Use(cfg), called by any goroutine
DoUse(cfg) ==
    /\ writes < MaxWrites
    /\ active' = Use(active, cfg)
    /\ installed' = installed \cup {cfg}
    /\ lastWrite' = [op |-> "use", path |-> "", err |-> FALSE, before |-> active]
    /\ writes' = writes + 1
    /\ UNCHANGED <<pc, snaps, analyzeVars, compareVars, resultVars>>

\* the Config an Apply call that succeeds hands to Use
handedToUse(path) == IF path = "" THEN Default ELSE Unmarshal(Files[path], Default).cfg

\* config.Apply(path), called by any goroutine
DoApply(path) ==
    /\ writes < MaxWrites
    /\ active' = Apply(path, active).active
    /\ installed' = IF Apply(path, active).err THEN installed
                    ELSE installed \cup {handedToUse(path)}
    /\ lastWrite' = [op |-> "apply", path |-> path, err |-> Apply(path, active).err,
                     before |-> active]
    /\ writes' = writes + 1
    /\ UNCHANGED <<pc, snaps, analyzeVars, compareVars, resultVars>>

\* the caller starts the next Compare call
NextCall ==
    /\ pc = "compared"
    /\ pc' = "compare"
    /\ report' = Nil
    /\ snaps' = <<>>
    /\ UNCHANGED <<base, target, opts, compareErr, analyzeVars, configVars, resultVars>>

\* one signature whose self time rises from 2 ms to 12 ms
InitConfig ==
    /\ NoAnalyze
    /\ base = Analyze(Explain(PlanNode("Seq Scan", "t", 10, 2, 20, 1, NoBuffers), 1, 13)).analysis
    /\ target = Analyze(Explain(PlanNode("Seq Scan", "t", 10, 12, 20, 1, NoBuffers), 1, 13)).analysis
    /\ opts \in DiffOptions
    /\ report = Nil
    /\ compareErr = FALSE
    /\ DefaultConfig
    /\ NoResults
    /\ snaps = <<>>
    /\ pc = "compare"

NextConfig ==
    \/ \E cfg \in UseInputs : DoUse(cfg)
    \/ \E path \in Paths : DoApply(path)
    \/ CompareBegin
    \/ CompareFinish
    \/ NextCall

SpecConfig == InitConfig /\ [][NextConfig]_vars

----------------------------------------------------------------------------
(* Configuration: loads, failures and readers *)

\* C7: when a configuration load fails (Apply on an unreadable or malformed
\* file returns an error), the active configuration is the one that was
\* active before the call.
C7_FailedApplyKeepsActive ==
    (lastWrite.op = "apply" /\ lastWrite.err) => active = lastWrite.before

\* C7 witness: a load of a file with a mistyped key failed while a loaded
\* configuration, not the default, was active
C7_Witness ==
    /\ lastWrite.op = "apply"
    /\ lastWrite.err
    /\ lastWrite.path = "mistyped"
    /\ lastWrite.before # Default
    /\ active = lastWrite.before

\* C8: every Config value Active() returns is, as a whole, the built-in
\* default or a Config handed entire to one Use call.
C8_ActiveReturnsWholeConfigs ==
    \A i \in 1..Len(snaps) : snaps[i] \in {Default} \cup installed

\* C8 witness: a Compare call read the default, then, after a Use in between,
\* the Config handed to that Use
C8_Witness ==
    /\ Len(snaps) = 2
    /\ snaps[1] = Default
    /\ snaps[2] = Tuned

\* C9: all configuration thresholds a single Compare call uses come from one
\* and the same active configuration: one of the configurations that were
\* active during the call accounts for the effective options and for the
\* insights of the Report.
C9_OneConfigurationPerCall ==
    Compared => \E i \in 1..Len(snaps) :
        /\ report.Options = applyDefaults(opts, snaps[i].Diff)
        /\ report.Insights = synthesizeInsights(report, snaps[i])

\* the value of a field after a load of doc: the document's when the key is
\* present, the default's otherwise
Layered(doc) ==
    [Insights |-> [k \in DOMAIN Default.Insights |->
                      IF k \in DOMAIN doc.insights THEN doc.insights[k]
                      ELSE Default.Insights[k]],
     Diff     |-> [k \in DOMAIN Default.Diff |->
                      IF k \in DOMAIN doc.diff THEN doc.diff[k] ELSE Default.Diff[k]]]

\* C10: a successful Apply(path) makes the active configuration the built-in
\* defaults with exactly the fields present in the document overridden, and
\* Apply("") makes it Default().
C10_ApplyLayersOnDefaults ==
    (lastWrite.op = "apply" /\ ~lastWrite.err) =>
        IF lastWrite.path = "" THEN active = Default
        ELSE active = Layered(Files[lastWrite.path])

\* C10 witness: the sample file was applied over a loaded configuration; the
\* keys it sets are overridden, a key it omits has its default value
C10_Witness ==
    /\ lastWrite.op = "apply"
    /\ ~lastWrite.err
    /\ lastWrite.path = "sample"
    /\ lastWrite.before.Diff.MinPercentChange # Default.Diff.MinPercentChange
    /\ active.Diff.MaxItems = 12
    /\ active.Diff.MinPercentChange = Default.Diff.MinPercentChange

----------------------------------------------------------------------------
(* Aggregation of a tree and of the same tree with its siblings reordered *)

\* the orders in which k siblings can stand
Perms(k) == { p \in [1..k -> 1..k] : \A i, j \in 1..k : p[i] = p[j] => i = j }

\* the trees that differ from n in the order of siblings only, at any depth
RECURSIVE Reorderings(_)
Reorderings(n) ==
    LET k == Len(n.Children)
        choices == { cs \in [1..k -> UNION { Reorderings(n.Children[i]) : i \in 1..k }] :
                        \A i \in 1..k : cs[i] \in Reorderings(n.Children[i]) }
    IN  IF k = 0 THEN {n}
        ELSE { [n EXCEPT !.Children = [i \in 1..k |-> cs[p[i]]]] :
                  p \in Perms(k), cs \in choices }

\* the nodes of the trees: two signatures, one of them on nodes of different
\* time, rows and buffers
AggNodes ==
    { PlanNode("Seq Scan", "t", 10, 2, 20, 1, [NoBuffers EXCEPT !.SharedRead = 7]),
      PlanNode("Seq Scan", "t", 4, 12, 5, 3, [NoBuffers EXCEPT !.TempRead = 3]),
      PlanNode("Seq Scan", "u", 10, 2, 20, 1, NoBuffers),
      PlanNode("Sort", "", 10, 4, 20, 1, [NoBuffers EXCEPT !.TempWritten = 2]) }

InitAggregate ==
    /\ NoAnalyze
    /\ \E shape \in Shapes(MaxAggNodes) :
         \E nodes \in [1..Size(shape) -> AggNodes] :
             base = Analyze(Explain(PlanTree(shape, nodes, 1), 1, 13)).analysis
    /\ target = Nil
    /\ opts = Options(0, 0, 0)
    /\ report = Nil
    /\ compareErr = FALSE
    /\ DefaultConfig
    /\ NoResults
    /\ snaps = <<>>
    /\ pc = "aggregate"

\* aggregate runs on the tree and on each of its reorderings
Aggregate ==
    /\ pc = "aggregate"
    /\ aggregates' = [given     |-> aggregate(base.Root),
                      reordered |-> { aggregate(r) : r \in Reorderings(base.Root) }]
    /\ pc' = "aggregated"
    /\ UNCHANGED <<analyzeVars, compareVars, configVars, snaps, second, jsonOut, messages, numeric>>

NextAggregate == Aggregate

SpecAggregate == InitAggregate /\ [][NextAggregate]_vars

----------------------------------------------------------------------------
(* The ratio functions of the Analyzer and the Diff Engine on two numbers *)

\* row counts and times (ms): zero, positive and negative multiples of 5
Values == { 5 * k : k \in (-MaxValue)..MaxValue }

InitNumeric ==
    /\ NoAnalyze
    /\ NoCompare
    /\ DefaultConfig
    /\ second = Nil
    /\ jsonOut = Nil
    /\ aggregates = Nil
    /\ messages = Nil
    /\ \E x, y \in Values : numeric = [first |-> x, second |-> y]
    /\ snaps = <<>>
    /\ pc = "numbers"

\* buildStats and buildEntry compute the factor of (estimated, actual) rows;
\* buildEntry computes the percent change of (base, target)
Compute ==
    /\ pc = "numbers"
    /\ numeric' = [first   |-> numeric.first,
                   second  |-> numeric.second,
                   factor  |-> computeEstimateFactor(numeric.first, numeric.second),
                   ratio   |-> ratio(numeric.second, numeric.first),
                   percent |-> percentChange(numeric.first, numeric.second)]
    /\ pc' = "computed"
    /\ UNCHANGED <<analyzeVars, compareVars, configVars, snaps, second, jsonOut, aggregates,
                   messages>>

NextNumeric == Compute

SpecNumeric == InitNumeric /\ [][NextNumeric]_vars

\* the functions have returned
Computed == pc = "computed"

\* a / b for b # 0, as a fraction of positive denominator
Quotient(a, b) == IF b > 0 THEN [num |-> a, den |-> b] ELSE [num |-> -a, den |-> -b]

\* the factor the policy gives for estimated rows e and actual rows a: 1
\* when both are zero, +infinity when e is zero and a > 0, a / e otherwise
FactorAsStated(f, e, a) ==
    IF e = 0 /\ a = 0 THEN f = RatOf(1)
    ELSE IF e = 0 /\ a > 0 THEN f = RatInf
    ELSE e # 0 /\ ~RatIsInf(f) /\ RatEQ(f, Quotient(a, e))

C18_PercentChange ==
    Computed =>
        LET b == numeric.first
            t == numeric.second
            p == numeric.percent
        IN  /\ ~RatIsInf(p)
            /\ p.den > 0
            /\ IF b = 0 THEN p = RatOf(IF t = 0 THEN 0 ELSE IF t > 0 THEN 100 ELSE -100)
               ELSE RatEQ(p, Quotient((t - b) * 100, b))

\* C18 witness: base 10 and target 15 give 50
C18_Witness ==
    /\ Computed
    /\ numeric.first = 10
    /\ numeric.second = 15
    /\ RatEQ(numeric.percent, RatOf(50))

----------------------------------------------------------------------------
(* The analyze command on join plans: Analyze, then BuildMessages *)

\* the inner side of a join: scans invoked 1, 150, 500 and 10000 times
InnerScans ==
    { PlanNode("Seq Scan", "t", 10, 12, 20, 1, [NoBuffers EXCEPT !.SharedRead = 6000]),
      PlanNode("Index Scan", "u", 1, 0, 1, 150, NoBuffers),
      PlanNode("Seq Scan", "u", 1, 0, 1, 500, NoBuffers),
      PlanNode("Index Scan", "t", 1, 0, 1, 10000, NoBuffers) }

\* the joins: a nested loop, and a hash join that spilled 3000 temp blocks
JoinNodes ==
    { PlanNode("Nested Loop", "", 10, 50, 10, 1, NoBuffers),
      PlanNode("Hash Join", "", 10, 50, 10, 1, [NoBuffers EXCEPT !.TempWritten = 3000]) }

\* a left-deep join plan: each level joins the plan below it (outer side)
\* with a scan (inner side); the lowest level is a scan of t
RECURSIVE JoinPlan(_)
JoinPlan(levels) ==
    IF levels = <<>> THEN PlanNode("Seq Scan", "t", 10, 12, 20, 1, NoBuffers)
    ELSE [Head(levels).join EXCEPT !.Children = <<JoinPlan(Tail(levels)), Head(levels).scan>>]

\* what stands above the joins: nothing, a sort that spilled, or a limit over
\* a parallel gather that kept 10 of 1000 estimated rows
Tops == {"none", "sort", "limit"}

TopPlan(top, plan) ==
    IF top = "sort"
    THEN [PlanNode("Sort", "", 10, 60, 10, 1, [NoBuffers EXCEPT !.TempRead = 25000])
            EXCEPT !.Children = <<plan>>]
    ELSE IF top = "limit"
    THEN [PlanNode("Limit", "", 10, 70, 10, 1, NoBuffers) EXCEPT !.Children =
            << [PlanNode("Gather", "", 1000, 60, 10, 1, NoBuffers)
                  EXCEPT !.Children = <<plan>>] >>]
    ELSE plan

InitInsight ==
    /\ \E n \in 0..MaxJoins :
         \E levels \in [1..n -> [join : JoinNodes, scan : InnerScans]] :
           \E top \in Tops :
              explain = Explain(TopPlan(top, JoinPlan(levels)), 1, 13)
    /\ analysis = Analyze(explain).analysis
    /\ analyzeErr = FALSE
    /\ NoCompare
    /\ \E path \in {"", "sample"} : ConfigLoaded(path)
    /\ NoResults
    /\ snaps = <<>>
    /\ pc = "insight"

\* insight.BuildMessages(analysis); no Use or Apply runs beside it, so every
\* rule reads the same configuration
Build ==
    /\ pc = "insight"
    /\ messages' = BuildMessages(analysis, Active(active))
    /\ pc' = "built"
    /\ UNCHANGED <<analyzeVars, compareVars, configVars, snaps, second, jsonOut, aggregates,
                   numeric>>

\* a second BuildMessages call with the same analysis and configuration
BuildAgain ==
    /\ pc = "built"
    /\ second' = BuildMessages(analysis, Active(active))
    /\ pc' = "rebuilt"
    /\ UNCHANGED <<analyzeVars, compareVars, configVars, snaps, messages, jsonOut, aggregates,
                   numeric>>

NextInsight == Build \/ BuildAgain

SpecInsight == InitInsight /\ [][NextInsight]_vars

----------------------------------------------------------------------------
(* Insight Engine: order of the rules and the nested-loop rule *)

\* BuildMessages has returned
Built == pc \in {"built", "rebuilt"}

\* the rules in the order of the contract, and the most messages of each
Rules == <<"Hot spot", "Estimate drift", "Buffer churn", "Parallel gather",
           "spilled to disk", "Nested Loop">>

Most == <<1, 2, 1, 1, 2, 2>>

RankOf(rule) == CHOOSE r \in 1..Len(Rules) : Rules[r] = rule

CountOf(rule) == Cardinality({ i \in 1..Len(messages) : messages[i].Text.rule = rule })

\* C19: the list BuildMessages returns is ordered by rule: at most 1 hotspot
\* message, then at most 2 drift, 1 buffer-churn, 1 parallel-limit, 2
\* disk-spill and 2 nested-loop messages; a second call with the same analysis
\* and the same active configuration returns the same list.
C19_MessagesOrderedByRule ==
    Built =>
        /\ \A i \in 1..Len(messages) : messages[i].Text.rule \in { Rules[r] : r \in 1..Len(Rules) }
        /\ \A i, j \in 1..Len(messages) :
              i < j => RankOf(messages[i].Text.rule) <= RankOf(messages[j].Text.rule)
        /\ \A r \in 1..Len(Rules) : CountOf(Rules[r]) <= Most[r]
        /\ pc = "rebuilt" => second = messages

\* C19 witness: three nested loops amplify a scan and two messages report
\* them, after a hotspot, two drift messages and a parallel-limit message;
\* the second call returned the same list
C19_Witness ==
    /\ pc = "rebuilt"
    /\ second = messages
    /\ Len(nestedLoopWalk(walkNodes(analysis.Root), active.Insights)) > 2
    /\ CountOf("Nested Loop") = 2
    /\ CountOf("Hot spot") = 1
    /\ CountOf("Estimate drift") = 2
    /\ CountOf("Parallel gather") = 1

\* the Nested Loop nodes of the plan
NestedLoops ==
    LET all == walkNodes(analysis.Root)
    IN  { i \in 1..Len(all) : all[i].Node.NodeType = "Nested Loop" }

\* the plan has one Nested Loop node and a scan-type child of it was invoked
\* more often than the warn threshold
OneAmplifiedLoop ==
    /\ Cardinality(NestedLoops) = 1
    /\ \A i \in NestedLoops : Len(amplified(walkNodes(analysis.Root)[i], active.Insights)) > 0

\* that child
AmplifiedChild ==
    LET i == CHOOSE i \in NestedLoops : TRUE
    IN  amplified(walkNodes(analysis.Root)[i], active.Insights)[1]

\* the nested-loop messages of the list
LoopMessages ==
    FilterSeq(messages, { m \in { messages[i] : i \in 1..Len(messages) } :
                            m.Text.rule = "Nested Loop" })

\* C20 as stated: for a plan with one Nested Loop node whose scan-type child
\* has a loop count above the warn threshold, BuildMessages returns exactly
\* one nested-loop message, it names that child, and its severity is warning,
\* or critical if the loop count is >= the critical threshold.
C20_NestedLoopWarning ==
    (Built /\ OneAmplifiedLoop) =>
        /\ Len(LoopMessages) = 1
        /\ LoopMessages[1].Text.child = CompactLabel(AmplifiedChild)
        /\ LoopMessages[1].Severity =
              IF ActualLoopsOf(AmplifiedChild) >= active.Insights.NestedLoopCriticalLoops
              THEN "critical" ELSE "warning"

\* C20 amended: ... exactly one nested-loop message, it names that child, and
\* its severity is critical if the loop count is >= the critical threshold,
\* otherwise info if the loop count is below twice the warn threshold, and
\* warning in every other case.
C20_NestedLoopSeverity ==
    (Built /\ OneAmplifiedLoop) =>
        /\ Len(LoopMessages) = 1
        /\ LoopMessages[1].Text.child = CompactLabel(AmplifiedChild)
        /\ LoopMessages[1].Text.times = AmplifiedChild.Node.ActualLoops
        /\ LoopMessages[1].Severity =
              IF AmplifiedChild.Node.ActualLoops >= active.Insights.NestedLoopCriticalLoops
              THEN "critical"
              ELSE IF AmplifiedChild.Node.ActualLoops < 2 * active.Insights.NestedLoopWarnLoops
              THEN "info"
              ELSE "warning"

\* C20 witness: the scan child of the one nested loop ran 500 times against
\* a warn threshold of 100, and the one message about it is a warning
C20_Witness ==
    /\ Built
    /\ OneAmplifiedLoop
    /\ active.Insights.NestedLoopWarnLoops = 100
    /\ AmplifiedChild.Node.ActualLoops = 500
    /\ Len(LoopMessages) = 1
    /\ LoopMessages[1].Text.child = <<"Seq Scan", "u">>
    /\ LoopMessages[1].Severity = "warning"


----------------------------------------------------------------------------
(* The analyze command on wide plans: a join over several scans, enough nodes
   for the caps of the hot and divergent lists to cut *)

\* the most scans under the join
MaxLeaves == 5

\* the buffers of a scan that read four shared blocks
ReadBuffers == [NoBuffers EXCEPT !.SharedRead = 4]

\* the scans under the join: an accurate one, one with three times the rows
\* and buffers, one never executed with no estimate, one looped three times
\* with a tenth of the rows, one with half the rows and buffers
WideLeaves ==
    { PlanNode("Seq Scan",   "t", 10,  1, 10, 1, NoBuffers),
      PlanNode("Index Scan", "u", 10,  3, 30, 1, ReadBuffers),
      PlanNode("Seq Scan",   "u",  0,  0,  5, 0, NoBuffers),
      PlanNode("Index Scan", "t", 10,  2,  1, 3, NoBuffers),
      PlanNode("Seq Scan",   "v", 20, 12, 10, 1, ReadBuffers) }

\* the actual total time (ms) of the join at the root
WideTimes == {20, 60}

\* a join over the given scans
WidePlan(time, leaves) ==
    [PlanNode("Hash Join", "", 10, time, 40, 1, NoBuffers) EXCEPT !.Children = leaves]

\* the single scan of the worked example: 100 rows estimated and returned,
\* 5 ms, one loop
SingleScan == PlanNode("Seq Scan", "t", 100, 5, 100, 1, NoBuffers)

\* a join whose time is spread evenly over itself and ten scans
BalancedPlan ==
    [PlanNode("Append", "", 10, 11, 10, 1, NoBuffers)
        EXCEPT !.Children = [i \in 1..10 |-> PlanNode("Seq Scan", "t", 10, 1, 10, 1, NoBuffers)]]

\* the Explain handed to Analyze
InitWide ==
    /\ \/ explain = Explain(SingleScan, 1, 6)
       \/ explain = Explain(BalancedPlan, 1, 12)
       \/ \E time \in WideTimes, n \in 0..MaxLeaves :
            \E leaves \in [1..n -> WideLeaves] :
                explain = Explain(WidePlan(time, leaves), 1, time + 1)
    /\ analysis = Nil
    /\ analyzeErr = FALSE
    /\ pc = "wide"
    /\ NoCompare
    /\ DefaultConfig
    /\ NoResults
    /\ snaps = <<>>

\* Analyze(explain) on a plan that is present
AnalyzeWide ==
    /\ pc = "wide"
    /\ analysis' = Analyze(explain).analysis
    /\ analyzeErr' = Analyze(explain).err
    /\ pc' = "analyzed"
    /\ UNCHANGED <<explain, compareVars, configVars, snaps, resultVars>>

NextWide == AnalyzeWide

SpecWide == InitWide /\ [][NextWide]_vars


----------------------------------------------------------------------------
(* Analyzer: the worked example, warnings, loops and the two lists *)

\* C21: analysing the single scan (100 rows estimated, 100 returned, 5 ms,
\* one loop) gives a root with exclusive time 5 ms, a share of 100%, a row
\* factor of 1 and no warning
C21_SingleScanExample ==
    (Analyzed /\ explain.Plan = SingleScan) =>
        /\ analysis.Root.ExclusiveTimeMs = 5
        /\ RatEQ(analysis.Root.PercentExclusive, RatOf(1))
        /\ RatEQ(analysis.Root.RowEstimateFactor, RatOf(1))
        /\ analysis.Root.Warnings = <<>>

\* the single scan has been analysed
C21_Witness == Analyzed /\ explain.Plan = SingleScan /\ analysis.Root.Children = <<>>


\* the node carries a warning with the tag
Warned(n, tag) == \E i \in 1..Len(n.Warnings) : n.Warnings[i] = tag

\* C23: after Analyze every node whose self-time share of the root's inclusive
\* time is >= 20% carries a self-time warning, every node with row factor
\* >= 2.0 or <= 0.5 carries a row-estimate warning, and every node with
\* nonzero buffers and self-time share >= 5% carries a heavy-buffer warning
C23_WarningsAtThresholds ==
    Analyzed => \A n \in StatsNodes :
        /\ RatGE(n.PercentExclusive, RatDiv(20, 100)) => Warned(n, "self time")
        /\ RatGE(n.RowEstimateFactor, RatOf(2)) => Warned(n, "rows higher than estimate")
        /\ RatLE(n.RowEstimateFactor, RatDiv(1, 2)) => Warned(n, "rows lower than estimate")
        /\ (Total(n.Buffers) > 0 /\ RatGE(n.PercentExclusive, RatDiv(5, 100)))
              => Warned(n, "heavy buffer usage")

\* the loop count the claim describes: the actual loops when > 0, otherwise 1
LoopsAsStated(n) == IF n.Node.ActualLoops > 0 THEN n.Node.ActualLoops ELSE 1

\* C24: for every node, inclusive time = actual total time x effective loops,
\* actual row total = actual rows x effective loops and estimated row total =
\* plan rows x effective loops, the effective loop count being the actual
\* loops when > 0 and 1 otherwise; a node without runtime statistics (loops 0,
\* time 0) has inclusive time 0 and an estimated row total equal to its plan
\* rows, and no share is a quotient by zero
C24_EffectiveLoops ==
    Analyzed => \A n \in StatsNodes :
        /\ n.InclusiveTimeMs = n.Node.ActualTotalTime * LoopsAsStated(n)
        /\ n.ActualTotalRows = n.Node.ActualRows * LoopsAsStated(n)
        /\ n.EstimatedRows = n.Node.PlanRows * LoopsAsStated(n)
        /\ (n.Node.ActualLoops = 0 /\ n.Node.ActualTotalTime = 0) =>
              n.InclusiveTimeMs = 0 /\ n.EstimatedRows = n.Node.PlanRows
        /\ n.PercentExclusive.den # 0 /\ n.PercentInclusive.den # 0

\* a plan with a node that reports no runtime statistics and a node that was
\* looped over has been analysed
C24_Witness ==
    /\ Analyzed
    /\ \E n \in StatsNodes : n.Node.ActualLoops = 0 /\ n.Node.ActualTotalTime = 0
    /\ \E n \in StatsNodes : n.Node.ActualLoops = 3 /\ n.InclusiveTimeMs = 36

\* the nodes of the analysed plan, in pre-order
AllStats == flatten(analysis.Root)

\* how often a node occurs in a list (equal scans occur more than once)
Occurrences(list, n) == Cardinality({ i \in 1..Len(list) : list[i] = n })

\* the smaller of two numbers
Min(a, b) == IF a < b THEN a ELSE b

\* the node's exclusive-time share reaches 10%
ReachesCutoff(n) == RatGE(n.PercentExclusive, RatDiv(10, 100))

\* the node has a positive exclusive-time share
PositiveShare(n) == RatGT(n.PercentExclusive, RatZero)

\* the list holds nodes of the plan, ordered by non-increasing key
NonIncreasing(list, keys) ==
    \A i, j \in 1..Len(list) : i < j => RatGE(keys[i], keys[j])

\* the list holds the (up to limit) nodes of the plan with the largest keys
\* among the nodes in the set wanted: it has the length, every listed node is
\* wanted and occurs in the plan at least as often, and no wanted node left
\* out has a larger key than a listed one
LargestOf(list, keys, wanted, key(_), limit) ==
    /\ Len(list) = Min(limit, Cardinality({ i \in 1..Len(AllStats) : AllStats[i] \in wanted }))
    /\ \A i \in 1..Len(list) :
          list[i] \in wanted /\ Occurrences(list, list[i]) <= Occurrences(AllStats, list[i])
    /\ \A n \in wanted :
          Occurrences(list, n) < Occurrences(AllStats, n) =>
              \A i \in 1..Len(list) : RatLE(key(n), keys[i])

\* the exclusive-time shares of the hot list
HotShares == [i \in 1..Len(analysis.HotNodes) |-> analysis.HotNodes[i].PercentExclusive]

ShareOf(n) == n.PercentExclusive

\* C25: HotNodes holds at most 5 nodes ordered by non-increasing
\* exclusive-time share; if a node has a share >= 10%, every listed node has
\* and the list is the (up to 5) highest-share such nodes; if none has, the
\* list is the up-to-5 highest-share nodes with a positive share
C25_HotNodes ==
    Analyzed =>
        /\ Len(analysis.HotNodes) <= 5
        /\ NonIncreasing(analysis.HotNodes, HotShares)
        /\ IF \E n \in StatsNodes : ReachesCutoff(n)
           THEN LargestOf(analysis.HotNodes, HotShares,
                          { n \in StatsNodes : ReachesCutoff(n) }, ShareOf, 5)
           ELSE LargestOf(analysis.HotNodes, HotShares,
                          { n \in StatsNodes : PositiveShare(n) }, ShareOf, 5)

\* more than 5 nodes of the analysed plan reach 10% and the list holds 5
C25_Witness ==
    /\ Analyzed
    /\ Cardinality({ i \in 1..Len(AllStats) : ReachesCutoff(AllStats[i]) }) > 5
    /\ Len(analysis.HotNodes) = 5

\* the node is eligible for the divergent list as the claim words it: its row
\* factor is infinite, or it is >= 2.0 or <= 0.5 and one of the row totals is
\* not zero
Eligible(n) ==
    \/ RatIsInf(n.RowEstimateFactor)
    \/ /\ RatGE(n.RowEstimateFactor, RatOf(2)) \/ RatLE(n.RowEstimateFactor, RatDiv(1, 2))
       /\ n.EstimatedRows # 0 \/ n.ActualTotalRows # 0

\* |factor - 1| of a node
DistanceOf(n) == factorDistance(n.RowEstimateFactor)

\* |factor - 1| of the nodes of the divergent list
Distances == [i \in 1..Len(analysis.DivergentNodes) |-> DistanceOf(analysis.DivergentNodes[i])]

\* C26: DivergentNodes holds at most 5 nodes, ordered by non-increasing
\* |factor - 1|, and they are the eligible nodes with the largest |factor - 1|;
\* a node is eligible exactly when its row factor is infinite, or it is >= 2.0
\* or <= 0.5 with an estimated or actual row total that is not zero
C26_DivergentNodes ==
    Analyzed =>
        /\ Len(analysis.DivergentNodes) <= 5
        /\ NonIncreasing(analysis.DivergentNodes, Distances)
        /\ LargestOf(analysis.DivergentNodes, Distances,
                     { n \in StatsNodes : Eligible(n) }, DistanceOf, 5)

\* more than 5 nodes of the analysed plan are eligible and the 5 listed
\* include an infinite factor and one below 1
C26_Witness ==
    /\ Analyzed
    /\ Cardinality({ i \in 1..Len(AllStats) : Eligible(AllStats[i]) }) > 5
    /\ Len(analysis.DivergentNodes) = 5
    /\ \E i \in 1..5 : RatIsInf(analysis.DivergentNodes[i].RowEstimateFactor)
    /\ \E i \in 1..5 : RatLT(analysis.DivergentNodes[i].RowEstimateFactor, RatOf(1))

----------------------------------------------------------------------------
(* The diff command on plans that write temp files *)

\* temp blocks written by a node
Spilled(blocks) == [NoBuffers EXCEPT !.TempWritten = blocks]

\* the nodes of the base plans: a sort in memory, a sort that spills already,
\* a hash join in memory
SpillBaseNodes ==
    { PlanNode("Sort", "", 10,  2, 10, 1, NoBuffers),
      PlanNode("Sort", "", 10, 12, 10, 1, Spilled(40)),
      PlanNode("Hash Join", "", 10,  4, 10, 1, NoBuffers) }

\* the nodes of the target plans: a slower sort spilling 100 blocks, a faster
\* sort spilling 300, a slower hash join spilling 300, a hash join in memory
SpillTargetNodes ==
    { PlanNode("Sort", "", 10, 30, 10, 1, Spilled(100)),
      PlanNode("Sort", "", 10,  1, 10, 1, Spilled(300)),
      PlanNode("Hash Join", "", 10,  9, 10, 1, Spilled(300)),
      PlanNode("Hash Join", "", 10,  4, 10, 1, NoBuffers) }

\* the Options handed to Compare: all unset, or one entry a section
SpillOptions == { Options(0, 0, 0), Options(0, 0, 1) }

InitSpill ==
    /\ NoAnalyze
    /\ \E shape \in Shapes(MaxDiffNodes) :
         \E nodes \in [1..Size(shape) -> SpillBaseNodes] :
             base = Analyze(Explain(PlanTree(shape, nodes, 1), 1, 13)).analysis
    /\ \E shape \in Shapes(MaxDiffNodes) :
         \E nodes \in [1..Size(shape) -> SpillTargetNodes] :
             target = Analyze(Explain(PlanTree(shape, nodes, 1), 1, 31)).analysis
    /\ opts \in SpillOptions
    /\ report = Nil
    /\ compareErr = FALSE
    /\ \E path \in {"", "spill"} : ConfigLoaded(path)
    /\ NoResults
    /\ snaps = <<>>
    /\ pc = "compare"

NextSpill == CompareBegin \/ CompareFinish

SpecSpill == InitSpill /\ [][NextSpill]_vars

----------------------------------------------------------------------------
(* Diff Engine: operators that began to spill *)

\* the signature's temp blocks are zero in the base and above the configured
\* SpillNewBlocks in the target
BeganSpilling(e) ==
    e.BaseTempBlocks = 0 /\ e.TargetTempBlocks > Active(active).Insights.SpillNewBlocks

\* the insights hold a "began spilling to disk" message for the signature
SpillReported(e) ==
    \E i \in 1..Len(report.Insights) :
        /\ report.Insights[i].Message.about = "began spilling to disk"
        /\ report.Insights[i].Message.Signature = e.Signature

\* C22: after Compare, every signature whose aggregated temp blocks are zero
\* in the base and exceed the configured SpillNewBlocks in the target has a
\* "began spilling to disk" message in the Report's insights
C22_NewSpillReported ==
    Compared => \A e \in AllEntries : BeganSpilling(e) => SpillReported(e)


----------------------------------------------------------------------------
(* Diff Engine: operators present in one plan only *)

\* the signatures found only in the target, and only in the base
OnlyInTarget == DOMAIN aggregate(target.Root) \ DOMAIN aggregate(base.Root)

OnlyInBase == DOMAIN aggregate(base.Root) \ DOMAIN aggregate(target.Root)

\* the entries the Report lists under a signature
ListedUnder(sig) ==
    { report.Regressions[i] : i \in { j \in 1..Len(report.Regressions) :
                                        report.Regressions[j].Signature = sig } }
    \cup { report.Improvements[i] : i \in { j \in 1..Len(report.Improvements) :
                                              report.Improvements[j].Signature = sig } }

\* an operator of the given self time compared against all-zero aggregates on
\* the base side, with the percent change given: the entries listed under the
\* signature carry these numbers, and the signature is listed as a regression
\* when they meet the thresholds, unless the list was cut
AgainstZeroBase(sig, self, percent) ==
    /\ \A e \in ListedUnder(sig) :
          /\ e.BaseSelfMs = 0 /\ e.TargetSelfMs = self /\ e.DeltaSelfMs = self
          /\ RatEQ(e.PercentChange, RatOf(percent))
    /\ (self >= report.Options.MinSelfTimeDeltaMs /\ percent >= report.Options.MinPercentChange)
          => \/ \E i \in 1..Len(report.Regressions) : report.Regressions[i].Signature = sig
             \/ Cut(report.Regressions, report.Options)

\* the same against all-zero aggregates on the target side; an entry that
\* meets both tests is a regression
AgainstZeroTarget(sig, self, percent) ==
    /\ \A e \in ListedUnder(sig) :
          /\ e.TargetSelfMs = 0 /\ e.BaseSelfMs = self /\ e.DeltaSelfMs = -self
          /\ RatEQ(e.PercentChange, RatOf(percent))
    /\ (/\ -self <= -report.Options.MinSelfTimeDeltaMs
        /\ percent <= -report.Options.MinPercentChange
        /\ ~(-self >= report.Options.MinSelfTimeDeltaMs
             /\ percent >= report.Options.MinPercentChange))
          => \/ \E i \in 1..Len(report.Improvements) : report.Improvements[i].Signature = sig
             \/ Cut(report.Improvements, report.Options)

\* C27 as stated: a signature found only in the target is compared against
\* all-zero aggregates: BaseSelfMs 0, DeltaSelfMs its target self time, percent
\* change +100, a regression when those meet the thresholds; symmetrically
\* (percent change -100, an improvement) for one found only in the base
C27_OneSidedIsFullChange ==
    Compared =>
        /\ \A sig \in OnlyInTarget :
              AgainstZeroBase(sig, aggregate(target.Root)[sig].SelfMs, 100)
        /\ \A sig \in OnlyInBase :
              AgainstZeroTarget(sig, aggregate(base.Root)[sig].SelfMs, -100)

\* C27 amended: as stated, with a percent change of +100 (-100 for a
\* signature found only in the base) when the operator's self time is above
\* zero and of 0 when its self time is zero
C27_OneSidedAgainstZero ==
    Compared =>
        /\ \A sig \in OnlyInTarget :
              LET self == aggregate(target.Root)[sig].SelfMs
              IN  AgainstZeroBase(sig, self, IF self > 0 THEN 100 ELSE 0)
        /\ \A sig \in OnlyInBase :
              LET self == aggregate(base.Root)[sig].SelfMs
              IN  AgainstZeroTarget(sig, self, IF self > 0 THEN -100 ELSE 0)

\* a signature found only in the target is listed as a regression with a
\* percent change of +100, and one found only in the base as an improvement
C27_Witness ==
    /\ Compared
    /\ \E sig \in OnlyInTarget : \E e \in ListedUnder(sig) :
          e.BaseSelfMs = 0 /\ e.DeltaSelfMs > 0 /\ RatEQ(e.PercentChange, RatOf(100))
    /\ \E sig \in OnlyInBase : \E i \in 1..Len(report.Improvements) :
          report.Improvements[i].Signature = sig


----------------------------------------------------------------------------
(* Insights on plans whose nodes touch buffers and temp files *)

\* the nodes of the plans: a sort that spilled 2000 blocks, a hash join that
\* spilled 50, an incremental sort that spilled 20000, a materialize that
\* wrote 5000 temp blocks, a scan that read 6000 shared blocks, a scan that
\* touched no buffer
BufferNodes ==
    { PlanNode("Sort", "", 10, 5, 10, 1, Spilled(2000)),
      PlanNode("Hash Join", "", 10, 10, 10, 1, Spilled(50)),
      PlanNode("Incremental Sort", "", 10, 8, 10, 1, Spilled(20000)),
      PlanNode("Materialize", "", 10, 3, 10, 1, Spilled(5000)),
      PlanNode("Seq Scan", "t", 10, 12, 10, 1, [NoBuffers EXCEPT !.SharedRead = 6000]),
      PlanNode("Seq Scan", "u", 10, 20, 10, 1, NoBuffers) }

InitBuffers ==
    /\ \E shape \in Shapes(MaxNodes) :
         \E nodes \in [1..Size(shape) -> BufferNodes] :
             explain = Explain(PlanTree(shape, nodes, 1), 1, 13)
    /\ analysis = Analyze(explain).analysis
    /\ analyzeErr = FALSE
    /\ NoCompare
    /\ \E path \in {"", "spill"} : ConfigLoaded(path)
    /\ NoResults
    /\ snaps = <<>>
    /\ pc = "insight"

NextBuffers == Build \/ BuildAgain

SpecBuffers == InitBuffers /\ [][NextBuffers]_vars

----------------------------------------------------------------------------
(* Insight Engine: the disk-spill and buffer-churn rules *)

\* the disk-spill messages of the list, in order
SpillMessages ==
    FilterSeq(messages, { m \in { messages[i] : i \in 1..Len(messages) } :
                            m.Text.rule = "spilled to disk" })

\* the node is a sort or hash node whose temp blocks reach the configured
\* spill threshold
SpillCandidate(n) ==
    /\ n.Node.NodeType \in {"Sort", "Incremental Sort", "Hash", "Hash Join"}
    /\ n.Buffers.TempRead + n.Buffers.TempWritten >= Active(active).Insights.SpillNewBlocks

\* the message is about the node
SpillAbout(m, n) ==
    /\ m.Text.node = CompactLabel(n)
    /\ m.Text.blocks = n.Buffers.TempRead + n.Buffers.TempWritten
    /\ m.Anchor = AnchorID(n)

\* C28: BuildMessages emits disk-spill messages only for Sort, Incremental
\* Sort, Hash and Hash Join nodes whose temp read + temp written blocks are >=
\* the configured spill threshold; at most 2, for the candidates with the most
\* temp blocks in non-increasing order; the severity is critical at >= 20000
\* temp blocks, info below 2000 and warning otherwise, whatever the
\* configuration
C28_SpillMessages ==
    Built =>
        LET spills     == SpillMessages
            candidates == { i \in 1..Len(AllStats) : SpillCandidate(AllStats[i]) }
        IN  /\ Len(spills) = Min(2, Cardinality(candidates))
            /\ \A k \in 1..Len(spills) :
                  /\ \E i \in candidates : SpillAbout(spills[k], AllStats[i])
                  /\ spills[k].Severity =
                        (IF spills[k].Text.blocks >= 20000 THEN "critical"
                         ELSE IF spills[k].Text.blocks < 2000 THEN "info"
                         ELSE "warning")
                  /\ \A j \in 1..Len(spills) :
                        k < j => spills[k].Text.blocks >= spills[j].Text.blocks
                  /\ Cardinality({ j \in 1..Len(spills) : spills[j] = spills[k] })
                        <= Cardinality({ i \in candidates : SpillAbout(spills[k], AllStats[i]) })
            /\ \A i \in candidates :
                  Cardinality({ j \in 1..Len(spills) : SpillAbout(spills[j], AllStats[i]) })
                     < Cardinality({ h \in candidates : AllStats[h] = AllStats[i] })
                  => \A k \in 1..Len(spills) :
                        spills[k].Text.blocks
                           >= AllStats[i].Buffers.TempRead + AllStats[i].Buffers.TempWritten

\* three candidates of different volume, next to none: the two messages are
\* about the largest two, a critical and a warning one
C28_Witness ==
    /\ Built
    /\ Cardinality({ i \in 1..Len(AllStats) : SpillCandidate(AllStats[i]) }) = 3
    /\ Len(SpillMessages) = 2
    /\ SpillMessages[1].Severity = "critical" /\ SpillMessages[1].Text.blocks = 20000
    /\ SpillMessages[2].Severity = "warning" /\ SpillMessages[2].Text.blocks = 2000

\* the buffer-churn messages of the list
ChurnMessages ==
    FilterSeq(messages, { m \in { messages[i] : i \in 1..Len(messages) } :
                            m.Text.rule = "Buffer churn" })

\* the node has nonzero buffers and is not of a wrapper type
Proper(n) ==
    /\ Total(n.Buffers) # 0
    /\ n.Node.NodeType \notin {"Limit", "Sort", "Gather", "Gather Merge", "Incremental Sort",
                               "Unique", "Materialize"}

\* the top hot node is proper
HotIsProper == Len(analysis.HotNodes) > 0 /\ Proper(analysis.HotNodes[1])

\* the positions of the buffer-heavy list that hold a proper node
ProperHeavy == { i \in 1..Len(BufferHeavy(analysis)) : Proper(BufferHeavy(analysis)[i]) }

\* the node the claim names, for a buffer-heavy list that is not empty
ChurnNode ==
    IF HotIsProper THEN analysis.HotNodes[1]
    ELSE IF ProperHeavy # {}
    THEN BufferHeavy(analysis)[CHOOSE i \in ProperHeavy : \A j \in ProperHeavy : i <= j]
    ELSE BufferHeavy(analysis)[1]

\* C29: when the buffer-heavy list is not empty the buffer-churn message is
\* about the top hot node if that has nonzero buffers and is not a wrapper
\* type, otherwise about the first node of the buffer-heavy list that has
\* nonzero buffers and is not a wrapper type, otherwise about the first
\* (heaviest) buffer-heavy node; when the list is empty there is no
\* buffer-churn message
C29_BufferChurnNode ==
    Built =>
        IF Len(BufferHeavy(analysis)) = 0 THEN Len(ChurnMessages) = 0
        ELSE /\ Len(ChurnMessages) = 1
             /\ ChurnMessages[1].Text.node = CompactLabel(ChurnNode)
             /\ ChurnMessages[1].Text.buffers = Total(ChurnNode.Buffers)
             /\ ChurnMessages[1].Anchor = AnchorID(ChurnNode)

\* the top hot node touched no buffer and the heaviest buffer-heavy node is a
\* wrapper: the message is about a lighter node that is not
C29_Witness ==
    /\ Built
    /\ Len(analysis.HotNodes) > 0 /\ Total(analysis.HotNodes[1].Buffers) = 0
    /\ Len(BufferHeavy(analysis)) > 1 /\ ~Proper(BufferHeavy(analysis)[1])
    /\ ProperHeavy # {}
    /\ Len(ChurnMessages) = 1
    /\ ChurnMessages[1].Text.node # CompactLabel(BufferHeavy(analysis)[1])


----------------------------------------------------------------------------
(* Configuration: a load after earlier writes *)

\* the last write was a load of a document that succeeded
Loaded == lastWrite.op = "apply" /\ ~lastWrite.err /\ lastWrite.path # ""

\* C30: after any sequence of Use and Apply calls, the active configuration
\* that follows a successful Apply(path) depends on the document and the
\* built-in defaults only: it is what the same load gives on the defaults, and
\* every field the document omits has its default value, whatever an earlier
\* write had set it to
C30_LoadForgetsEarlierOverrides ==
    Loaded =>
        /\ active = Apply(lastWrite.path, Default).active
        /\ \A k \in DOMAIN Default.Insights \ DOMAIN Files[lastWrite.path].insights :
              active.Insights[k] = Default.Insights[k]
        /\ \A k \in DOMAIN Default.Diff \ DOMAIN Files[lastWrite.path].diff :
              active.Diff[k] = Default.Diff[k]

\* the lax file was loaded, then the spill file, which sets no diff key: the
\* diff thresholds of the first load are back at their defaults
C30_Witness ==
    /\ Loaded
    /\ lastWrite.path = "spill"
    /\ lastWrite.before.Diff.MaxItems = 1
    /\ lastWrite.before.Diff.MinPercentChange = 0
    /\ active.Diff.MaxItems = Default.Diff.MaxItems
    /\ active.Diff.MinPercentChange = Default.Diff.MinPercentChange
    /\ active.Insights.SpillNewBlocks = 50

====
